---------------------------- MODULE Spec2Model ----------------------------
(***************************************************************************)
(* Model of the defiactivity leaderboard pipeline:                         *)
(*   - the scripted indexers (api/get-leaderboard.js lines 84-218 and the  *)
(*     file-writing variant), function indexCommunityTweets;               *)
(*   - the snapshot read endpoint (api/get-leaderboard.js lines 1-82);     *)
(*   - the sync handler (api/sync-to-supabase.js): aggregation and the two *)
(*     upserts, over successive runs;                                      *)
(*   - the client cache helpers, mergeWithCache and loadData of App.jsx.   *)
(***************************************************************************)
EXTENDS Integers, Sequences, FiniteSets, TLC

VARIABLES
    \* ---- indexing run (indexCommunityTweets) ----
    tweets,            \* response.data.tweets: the fetched post batch
    cursor,            \* number of posts the for-of loop has consumed
    userStats,         \* the userStats object: [keys: insertion order, val: id -> entry]
    leaderboardCache,  \* the ranked array (<<>> until ranked)
    ipc,               \* position of the indexing run
    variant,           \* which indexer runs: "store" (Supabase) or "file" (users.json)
    leaderboardTable,  \* rows of the leaderboard table, in insertion order
    snapshotFile,      \* public/api/users.json
    exitCode,          \* exit code of the indexer process (Undefined: it has not exited)
    ilog,              \* what the run's fetch, clear and save steps came to
    \* ---- sync run (sync-to-supabase handler); it has its own tweets, cursor
    \* and userStats locals, held in the variables above ----
    tweetRecords,      \* the tweetRecords array
    syncResponse,      \* the JSON response of the sync handler
    ypc,               \* position of the sync handler
    runs,              \* number of sync runs started against the tables
    syncLog,           \* the upsert calls that succeeded, oldest first
    \* ---- snapshot read endpoint ----
    usersTable,        \* rows of the users table
    tweetsTable,       \* rows of the tweets table, in insertion order
    usersRead,         \* result of the users query (ordered rows)
    subReads,          \* per-author sub-read results, by position
    completionOrder,   \* positions of the sub-reads, in the order they resolved
    response,          \* the JSON response of the endpoint
    spc,               \* position of the endpoint handler
    \* ---- client (App.jsx) ----
    lsData,            \* localStorage[CACHE_KEY]
    lsTs,              \* localStorage[CACHE_TIMESTAMP_KEY]
    incoming,          \* argument of mergeWithCache / result.data
    merged,            \* value returned by mergeWithCache
    users,             \* React state: users
    isLiveData,        \* React state: isLiveData
    loading,           \* React state: loading
    now,               \* Date.now(), in milliseconds
    remote,            \* what the remote fetch of this run came to
    static,            \* what the static snapshot fetch of this run came to
    result,            \* the settled remote fetch: status, body, elapsed time
    fallback,          \* the settled static fetch: status, body, elapsed time
    cacheAge,          \* the cache age the tier 2 branch logged
    saveOutcome,       \* how the saveCache call of this run went ("none": no call)
    tierLog,           \* the tiers this loadData run has attempted, in order
    outcome,           \* the exit loadData took
    lpc,               \* position of the client
    searchTerm,        \* React state: searchTerm
    currentPage,       \* React state: currentPage
    effectPending      \* the effect on [searchTerm] is scheduled, not yet run

stoVars == <<variant, leaderboardTable, snapshotFile, exitCode, ilog>>
idxVars == <<tweets, cursor, userStats, leaderboardCache, ipc, stoVars>>
synVars == <<tweetRecords, syncResponse, ypc, runs, syncLog>>
srvVars == <<usersTable, tweetsTable, usersRead, subReads, completionOrder,
             response, spc>>
viewVars == <<searchTerm, currentPage, effectPending>>
cliVars == <<lsData, lsTs, incoming, merged, users, isLiveData, loading,
             now, remote, static, result, fallback, cacheAge, saveOutcome,
             tierLog, outcome, lpc, viewVars>>
vars == <<idxVars, synVars, srvVars, cliVars>>

-----------------------------------------------------------------------------
(* Bounds of the model *)
MaxPosts == 3        \* length of the post batch of an indexing run
MaxLongPosts == 6    \* length of the batch in the long-batch runs
MaxRows == 6         \* rows of the tweets table (one author can exceed five rows)
MaxFewRows == 2      \* rows of the tweets table when the users table varies
MaxCached == 2       \* entries of the local cache array
MaxIncoming == 2     \* entries of an incoming array
MaxSyncPosts == 2    \* length of the post window of a sync run that is followed by others
MaxRuns == 2         \* successive sync runs against the same tables

(* JavaScript undefined / a field that is absent from the payload *)
Undefined == -1

(* A fetch that has not settled, and no cache age logged *)
NoResponse ==
    [kind |-> "none", settled |-> "none", ok |-> FALSE, parses |-> FALSE,
     success |-> FALSE, isArray |-> FALSE, data |-> <<>>, elapsed |-> 0]
NoAge == [logged |-> FALSE, known |-> FALSE, hours |-> 0]
(* users.json does not exist; nothing has happened in the indexing run *)
NoFile == [exists |-> FALSE, content |-> <<>>]
NoLog == [fetch |-> "none", clear |-> "none", save |-> "none"]

Range(f) == {f[x] : x \in DOMAIN f}

RECURSIVE SumSeq(_)
SumSeq(s) == IF s = <<>> THEN 0 ELSE Head(s) + SumSeq(Tail(s))

(* x || y of JavaScript on numbers: 0 and undefined are falsy *)
Truthy(x) == x /= Undefined /\ x /= 0
OrElse(x, y) == IF Truthy(x) THEN x ELSE y


-----------------------------------------------------------------------------
(* ---------------- Inputs of an indexing run ---------------- *)

(* Author sub-records of the upstream payload.  Identifiers are decimal    *)
(* strings, written as digit sequences; <<>> is an absent field.           *)
NoAuthor == [present |-> FALSE, id_str |-> <<>>, id |-> <<>>, name |-> "",
             screen_name |-> "", userName |-> "", profile_image_url_https |-> <<>>]
Author2 == [present |-> TRUE, id_str |-> <<>>, id |-> <<2>>, name |-> "Bob",
            screen_name |-> "bob", userName |-> "",
            profile_image_url_https |-> <<"img/bob", "_normal", ".jpg">>]
Author1 == [present |-> TRUE, id_str |-> <<1>>, id |-> <<1>>, name |-> "Al",
            screen_name |-> "", userName |-> "al",
            profile_image_url_https |-> <<"img/al", ".jpg">>]
AuthorBig == [present |-> TRUE,
              id_str |-> <<1,5,8,0,0,0,0,0,0,0,0,0,0,0,0,0,0,0,7>>,
              id |-> <<>>, name |-> "Alice", screen_name |-> "al", userName |-> "",
              profile_image_url_https |-> <<>>]
Authors == {Author2, Author1, AuthorBig}

(* Counter and date variants of a post: every field name variant the loop  *)
(* probes appears, present or absent.                                      *)
CounterVariants ==
    { [favorite_count |-> Undefined, likeCount |-> Undefined,
       retweet_count |-> Undefined, retweetCount |-> Undefined,
       reply_count |-> Undefined, replyCount |-> Undefined,
       created_at |-> Undefined, createdAt |-> 5],
      [favorite_count |-> 0, likeCount |-> 2,
       retweet_count |-> Undefined, retweetCount |-> Undefined,
       reply_count |-> Undefined, replyCount |-> 1,
       created_at |-> 2, createdAt |-> Undefined],
      [favorite_count |-> Undefined, likeCount |-> Undefined,
       retweet_count |-> 1, retweetCount |-> Undefined,
       reply_count |-> 1, replyCount |-> Undefined,
       created_at |-> 3, createdAt |-> Undefined],
      [favorite_count |-> 1, likeCount |-> Undefined,
       retweet_count |-> Undefined, retweetCount |-> 1,
       reply_count |-> Undefined, replyCount |-> Undefined,
       created_at |-> Undefined, createdAt |-> Undefined] }

(* A raw post; text is the post's own (unique) content, here its number.   *)
MkTweet(a, c, n) ==
    [user_info |-> IF c.created_at = Undefined THEN NoAuthor ELSE a,
     author    |-> IF c.created_at = Undefined THEN a ELSE NoAuthor,
     id |-> n, text |-> n,
     reply_count |-> c.reply_count, replyCount |-> c.replyCount,
     favorite_count |-> c.favorite_count, likeCount |-> c.likeCount,
     retweet_count |-> c.retweet_count, retweetCount |-> c.retweetCount,
     created_at |-> c.created_at, createdAt |-> c.createdAt]

Dated == {c \in CounterVariants : c.created_at /= Undefined \/ c.createdAt /= Undefined}
PostKinds ==
    (Authors \X Dated)
       \cup ({NoAuthor} \X {c \in Dated : c.favorite_count = 0})
       \cup ({Author2} \X (CounterVariants \ Dated))

(* Batches of n posts *)
BatchesOver(kinds, n) ==
    { [i \in 1..n |-> MkTweet(k[i][1], k[i][2], i)] : k \in [1..n -> kinds] }
Batches == UNION { BatchesOver(PostKinds, n) : n \in 0..MaxPosts }

(* Long batches: few kinds, many posts (one author can exceed five posts)  *)
LongKinds == {Author2, AuthorBig, NoAuthor} \X {c \in Dated : c.favorite_count = 0}
LongBatches == UNION { BatchesOver(LongKinds, n) : n \in 0..MaxLongPosts }

-----------------------------------------------------------------------------
(* ---------------- indexCommunityTweets ---------------- *)

(* tweet.user_info || tweet.author || tweet.user *)
AuthorOf(tweet) == IF tweet.user_info.present THEN tweet.user_info ELSE tweet.author

(* author.id_str || author.id ; <<>> stands for the key "undefined" *)
AuthorIdOf(author) == IF author.id_str /= <<>> THEN author.id_str ELSE author.id

StrOr(x, y) == IF x /= "" THEN x ELSE y

(* `@${author.screen_name || author.userName}` *)
HandleOf(author) == <<"@", StrOr(author.screen_name, author.userName)>>

(* String.prototype.replace("_normal", ""): drops the first occurrence *)
RECURSIVE ReplaceNormal(_)
ReplaceNormal(url) ==
    IF url = <<>> THEN <<>>
    ELSE IF Head(url) = "_normal" THEN Tail(url)
    ELSE <<Head(url)>> \o ReplaceNormal(Tail(url))

(* new Date(x).toLocaleDateString(): the calendar day of the instant;      *)
(* instants are in half days, an absent value gives "Invalid Date" (-1)    *)
ToLocaleDateString(t) == IF t = Undefined THEN Undefined ELSE t \div 2

LikesOf(tweet) == OrElse(OrElse(tweet.favorite_count, tweet.likeCount), 0)
RetweetsOf(tweet) == OrElse(OrElse(tweet.retweet_count, tweet.retweetCount), 0)
CreatedOf(tweet) ==
    IF Truthy(tweet.created_at) THEN tweet.created_at ELSE tweet.createdAt
RepliesOf(tweet) == OrElse(OrElse(tweet.reply_count, tweet.replyCount), 0)

RecentCap == 5

NewEntry(author) ==
    [rank |-> 0, name |-> author.name, handle |-> HandleOf(author),
     avatarUrl |-> ReplaceNormal(author.profile_image_url_https),
     tweets |-> 0, likes |-> 0, rts |-> 0, score |-> 0, recentTweets |-> <<>>]

PostSummary(tweet) ==
    [text |-> tweet.text, date |-> ToLocaleDateString(CreatedOf(tweet)),
     likes |-> LikesOf(tweet), retweets |-> RetweetsOf(tweet)]

PushRecentUncapped(recent, tweet) == Append(recent, PostSummary(tweet))
PushRecent(recent, tweet) ==
    IF Len(recent) < RecentCap THEN Append(recent, PostSummary(tweet)) ELSE recent

UpdateCounts(e, tweet) ==
    [e EXCEPT !.tweets = @ + 1,
              !.likes = @ + LikesOf(tweet),
              !.rts = @ + RetweetsOf(tweet),
              !.recentTweets = PushRecent(@, tweet)]

EmptyStats == [keys |-> <<>>, val |-> <<>>]
HasKey(us, k) == \E i \in 1..Len(us.keys) : us.keys[i] = k
KeyPos(us, k) == CHOOSE i \in 1..Len(us.keys) : us.keys[i] = k
Get(us, k) == us.val[KeyPos(us, k)]

AccumulateAll(us, tweet) ==
    LET author == AuthorOf(tweet)
        authorId == AuthorIdOf(author)
        us1 == IF HasKey(us, authorId) THEN us
               ELSE [keys |-> Append(us.keys, authorId),
                     val |-> Append(us.val, NewEntry(author))]
        p == KeyPos(us1, authorId)
    IN  [us1 EXCEPT !.val[p] = UpdateCounts(@, tweet)]
(* One iteration of the for-of loop body *)
Accumulate(us, tweet) ==
    LET author == AuthorOf(tweet)
        authorId == AuthorIdOf(author)
        us1 == IF HasKey(us, authorId) THEN us
               ELSE [keys |-> Append(us.keys, authorId),
                     val |-> Append(us.val, NewEntry(author))]
        p == KeyPos(us1, authorId)
    IN  IF ~author.present THEN us
        ELSE [us1 EXCEPT !.val[p] = UpdateCounts(@, tweet)]

(* Property enumeration order of a JavaScript object: the keys that are    *)
(* canonical array indices (decimal, below 2^32 - 1) in ascending numeric   *)
(* order, then the other string keys in insertion order.                   *)
MaxIndexDigits == <<4,2,9,4,9,6,7,2,9,5>>
RECURSIVE LexLess(_, _)
LexLess(a, b) ==
    IF a = <<>> \/ b = <<>> THEN FALSE
    ELSE IF Head(a) /= Head(b) THEN Head(a) < Head(b)
    ELSE LexLess(Tail(a), Tail(b))
NumLess(a, b) == Len(a) < Len(b) \/ (Len(a) = Len(b) /\ LexLess(a, b))
IsArrayIndex(k) ==
    /\ k /= <<>>
    /\ (Head(k) /= 0 \/ Len(k) = 1)
    /\ NumLess(k, MaxIndexDigits)

RECURSIVE InsertKey(_, _)
InsertKey(sorted, k) ==
    IF sorted = <<>> THEN <<k>>
    ELSE IF NumLess(k, Head(sorted)) THEN <<k>> \o sorted
    ELSE <<Head(sorted)>> \o InsertKey(Tail(sorted), k)
RECURSIVE IndexKeysAscending(_)
IndexKeysAscending(keys) ==
    IF keys = <<>> THEN <<>>
    ELSE LET rest == IndexKeysAscending(Tail(keys))
         IN  IF IsArrayIndex(Head(keys)) THEN InsertKey(rest, Head(keys)) ELSE rest
OwnKeys(us) ==
    IndexKeysAscending(us.keys) \o SelectSeq(us.keys, LAMBDA k : ~IsArrayIndex(k))
ObjectValues(us) == [i \in 1..Len(us.keys) |-> Get(us, OwnKeys(us)[i])]

ScoreOfUnweighted(u) == u.likes + u.rts + u.tweets
(* u.score = u.likes + u.rts * 2 + u.tweets * 5 *)
ScoreOf(u) == u.likes + u.rts * 2 + u.tweets * 5
MapScore(arr) == [i \in 1..Len(arr) |-> [arr[i] EXCEPT !.score = ScoreOf(arr[i])]]

(* Array.prototype.sort((a, b) => b.score - a.score): a stable sort *)
BeforeAscending(a, b) == a.score - b.score < 0
Before(a, b) == b.score - a.score < 0
RECURSIVE InsertStable(_, _)
InsertStable(sorted, u) ==
    IF sorted = <<>> THEN <<u>>
    ELSE IF Before(u, Head(sorted)) THEN <<u>> \o sorted
    ELSE <<Head(sorted)>> \o InsertStable(Tail(sorted), u)
RECURSIVE SortByScore(_)
SortByScore(arr) ==
    IF arr = <<>> THEN <<>>
    ELSE InsertStable(SortByScore(SubSeq(arr, 1, Len(arr) - 1)), arr[Len(arr)])

(* leaderboardCache.forEach((u, i) => (u.rank = i + 1)) *)
AssignRanks(arr) == [i \in 1..Len(arr) |-> [arr[i] EXCEPT !.rank = i]]

RankUsers(us) == AssignRanks(SortByScore(MapScore(ObjectValues(us))))


(* ---- the run as a state machine ---- *)
ServeIdle ==
    /\ usersTable = {} /\ tweetsTable = <<>> /\ usersRead = <<>>
    /\ subReads = <<>> /\ completionOrder = <<>>
    /\ response = [status |-> 0] /\ spc = "idle"
(* useState("") of searchTerm, useState(1) of currentPage *)
ViewStart == searchTerm = "" /\ currentPage = 1 /\ effectPending = FALSE
ClientIdle ==
    /\ lsData = [kind |-> "absent", arr |-> <<>>] /\ lsTs = Undefined
    /\ incoming = <<>> /\ merged = [threw |-> FALSE, val |-> <<>>] /\ users = <<>>
    /\ isLiveData = FALSE /\ loading = TRUE /\ now = 0
    /\ remote = "none" /\ static = "none"
    /\ result = NoResponse /\ fallback = NoResponse /\ cacheAge = NoAge
    /\ saveOutcome = "none"
    /\ tierLog = <<>> /\ outcome = "none" /\ lpc = "idle"
    /\ ViewStart
StoreIdle ==
    /\ variant = "none" /\ leaderboardTable = <<>> /\ snapshotFile = NoFile
    /\ exitCode = Undefined /\ ilog = NoLog
IndexIdle ==
    /\ tweets = <<>> /\ cursor = 0 /\ userStats = EmptyStats
    /\ leaderboardCache = <<>> /\ ipc = "idle"
    /\ StoreIdle
SyncIdle ==
    /\ tweetRecords = <<>> /\ syncResponse = [status |-> 0] /\ ypc = "idle"
    /\ runs = 0 /\ syncLog = <<>>

(* what an earlier run left behind: the snapshot of a batch of one post *)
PreviousBatch == <<MkTweet(Author2, CHOOSE c \in Dated : c.created_at = 3, 1)>>
PreviousSnapshot == RankUsers(Accumulate(EmptyStats, PreviousBatch[1]))

(* the Supabase-writing indexer, or the file-writing one, is started; the  *)
(* leaderboard table, or users.json, holds the previous snapshot           *)
IndexInit ==
    /\ tweets = <<>> /\ cursor = 0 /\ userStats = EmptyStats
    /\ leaderboardCache = <<>> /\ ipc = "fetch"
    /\ variant \in {"store", "file"}
    /\ leaderboardTable = (IF variant = "store" THEN PreviousSnapshot ELSE <<>>)
    /\ snapshotFile = (IF variant = "file"
                       THEN [exists |-> TRUE, content |-> PreviousSnapshot] ELSE NoFile)
    /\ exitCode = Undefined /\ ilog = NoLog
    /\ SyncIdle /\ ServeIdle /\ ClientIdle

(* const response = await axios.get(...); tweets = response.data.tweets || [] *)
FetchTweets ==
    /\ ipc = "fetch"
    /\ \E b \in Batches \cup LongBatches : tweets' = b
    /\ ipc' = "loop"
    /\ UNCHANGED <<cursor, userStats, leaderboardCache, stoVars, synVars, srvVars, cliVars>>

(* the catch block: the Supabase-writing indexer logs and calls            *)
(* process.exit(1); the file-writing one only logs and returns             *)
CatchExit == IF variant = "store" THEN 1 ELSE exitCode
CatchPc == IF variant = "store" THEN "exited" ELSE "returned"

(* a run that clears the table although the fetch failed *)
FetchFailsAfterClear ==
    /\ ipc = "fetch"
    /\ ilog' = [ilog EXCEPT !.fetch = "error"]
    /\ exitCode' = CatchExit
    /\ ipc' = CatchPc
    /\ leaderboardTable' = <<>> /\ snapshotFile' = NoFile
    /\ UNCHANGED <<tweets, cursor, userStats, leaderboardCache, variant,
                   synVars, srvVars, cliVars>>
(* axios.get rejects (network error, non-2xx, timeout): the catch block *)
FetchFails ==
    /\ ipc = "fetch"
    /\ ilog' = [ilog EXCEPT !.fetch = "error"]
    /\ exitCode' = CatchExit
    /\ ipc' = CatchPc
    /\ UNCHANGED <<tweets, cursor, userStats, leaderboardCache, variant,
                   leaderboardTable, snapshotFile, synVars, srvVars, cliVars>>

(* one iteration of for (const tweet of tweets) *)
ProcessTweet ==
    /\ ipc = "loop"
    /\ cursor < Len(tweets)
    /\ userStats' = Accumulate(userStats, tweets[cursor + 1])
    /\ cursor' = cursor + 1
    /\ UNCHANGED <<tweets, leaderboardCache, stoVars, ipc, synVars, srvVars, cliVars>>

(* after the loop: map score, sort, assign ranks *)
RankStep ==
    /\ ipc = "loop"
    /\ cursor = Len(tweets)
    /\ leaderboardCache' = RankUsers(userStats)
    /\ ipc' = "ranked"
    /\ UNCHANGED <<tweets, cursor, userStats, stoVars, synVars, srvVars, cliVars>>

(* .delete().neq("rank", 0): the rows whose rank is not 0 go *)
DeleteNeqRank(table) == SelectSeq(table, LAMBDA r : ~(r.rank /= 0))

(* await supabase.from("leaderboard").delete().neq("rank", 0) succeeds *)
ClearLeaderboard ==
    /\ ipc = "ranked" /\ variant = "store"
    /\ leaderboardTable' = DeleteNeqRank(leaderboardTable)
    /\ ilog' = [ilog EXCEPT !.clear = "ok"]
    /\ ipc' = "cleared"
    /\ UNCHANGED <<tweets, cursor, userStats, leaderboardCache, variant, snapshotFile,
                   exitCode, synVars, srvVars, cliVars>>

(* the delete answers an error (or is denied): the result is not looked    *)
(* at, the run goes on to the insert                                       *)
ClearLeaderboardFails ==
    /\ ipc = "ranked" /\ variant = "store"
    /\ ilog' = [ilog EXCEPT !.clear = "error"]
    /\ ipc' = "cleared"
    /\ UNCHANGED <<tweets, cursor, userStats, leaderboardCache, variant,
                   leaderboardTable, snapshotFile, exitCode, synVars, srvVars, cliVars>>

(* .insert(leaderboardCache) succeeds: process.exit(0) *)
InsertLeaderboard ==
    /\ ipc = "cleared"
    /\ leaderboardTable' = leaderboardTable \o leaderboardCache
    /\ ilog' = [ilog EXCEPT !.save = "ok"]
    /\ exitCode' = 0
    /\ ipc' = "exited"
    /\ UNCHANGED <<tweets, cursor, userStats, leaderboardCache, variant, snapshotFile,
                   synVars, srvVars, cliVars>>

(* the insert answers an error: process.exit(1) *)
InsertLeaderboardFails ==
    /\ ipc = "cleared"
    /\ ilog' = [ilog EXCEPT !.save = "error"]
    /\ exitCode' = 1
    /\ ipc' = "exited"
    /\ UNCHANGED <<tweets, cursor, userStats, leaderboardCache, variant,
                   leaderboardTable, snapshotFile, synVars, srvVars, cliVars>>

(* fs.writeFileSync(outputPath, JSON.stringify(leaderboardCache, null, 2));  *)
(* every value of an entry is a JSON value, the file holds the array       *)
WriteSnapshot ==
    /\ ipc = "ranked" /\ variant = "file"
    /\ snapshotFile' = [exists |-> TRUE, content |-> leaderboardCache]
    /\ ilog' = [ilog EXCEPT !.save = "ok"]
    /\ ipc' = "returned"
    /\ UNCHANGED <<tweets, cursor, userStats, leaderboardCache, variant,
                   leaderboardTable, exitCode, synVars, srvVars, cliVars>>

(* writeFileSync throws (no space, no permission): the catch block logs *)
WriteSnapshotFails ==
    /\ ipc = "ranked" /\ variant = "file"
    /\ ilog' = [ilog EXCEPT !.save = "error"]
    /\ exitCode' = CatchExit
    /\ ipc' = CatchPc
    /\ UNCHANGED <<tweets, cursor, userStats, leaderboardCache, variant,
                   leaderboardTable, snapshotFile, synVars, srvVars, cliVars>>

(* the file-writing indexer after its run: under CI nothing is scheduled   *)
(* and the process ends on its own, with exit code 0                       *)
FileProcessEnds ==
    /\ ipc = "returned"
    /\ exitCode' = 0
    /\ ipc' = "exited"
    /\ UNCHANGED <<tweets, cursor, userStats, leaderboardCache, variant,
                   leaderboardTable, snapshotFile, ilog, synVars, srvVars, cliVars>>

(* otherwise setInterval(indexCommunityTweets, TWO_DAYS) keeps it alive *)
FileProcessStaysScheduled ==
    /\ ipc = "returned"
    /\ ipc' = "scheduled"
    /\ UNCHANGED <<tweets, cursor, userStats, leaderboardCache, stoVars,
                   synVars, srvVars, cliVars>>

IndexNext ==
    \/ FetchTweets \/ FetchFails \/ ProcessTweet \/ RankStep
    \/ ClearLeaderboard \/ ClearLeaderboardFails
    \/ InsertLeaderboard \/ InsertLeaderboardFails
    \/ WriteSnapshot \/ WriteSnapshotFails
    \/ FileProcessEnds \/ FileProcessStaysScheduled

-----------------------------------------------------------------------------
(* ---------------- Sync run (sync-to-supabase handler) ---------------- *)

(* author.screen_name || author.userName ; "" stands for the key "undefined" *)
SyncHandleOf(author) == StrOr(author.screen_name, author.userName)

NewSyncEntry(author) ==
    [handle |-> SyncHandleOf(author), name |-> author.name,
     avatar |-> ReplaceNormal(author.profile_image_url_https),
     total_tweets |-> 0, total_likes |-> 0, total_replies |-> 0, total_retweets |-> 0]

UpdateSyncCounts(e, tweet) ==
    [e EXCEPT !.total_tweets = @ + 1,
              !.total_likes = @ + LikesOf(tweet),
              !.total_retweets = @ + RetweetsOf(tweet),
              !.total_replies = @ + RepliesOf(tweet)]

(* the aggregation part of one iteration of the loop *)
SyncAccumulate(us, tweet) ==
    LET author == AuthorOf(tweet)
        handle == SyncHandleOf(author)
        us1 == IF HasKey(us, handle) THEN us
               ELSE [keys |-> Append(us.keys, handle),
                     val |-> Append(us.val, NewSyncEntry(author))]
        p == KeyPos(us1, handle)
    IN  IF ~author.present THEN us
        ELSE [us1 EXCEPT !.val[p] = UpdateSyncCounts(@, tweet)]

(* new Date(createdAt).toISOString() throws a RangeError on an invalid date *)
IsoThrows(tweet) == CreatedOf(tweet) = Undefined
(* the ISO string of an instant denotes that instant *)
ToISOString(t) == [instant |-> t]

TweetRecord(tweet) ==
    [id |-> tweet.id, user_handle |-> SyncHandleOf(AuthorOf(tweet)),
     text |-> tweet.text,
     likes |-> LikesOf(tweet), retweets |-> RetweetsOf(tweet),
     replies |-> RepliesOf(tweet),
     tweet_date |-> ToISOString(CreatedOf(tweet))]

(* usersArray = Object.values(userStats): the keys are handles, no array   *)
(* indices, so the values come in insertion order                          *)
UsersArray(us) == us.val

(* .upsert(usersArray, { onConflict: "handle", ignoreDuplicates: false }):  *)
(* a row with the handle of an incoming row takes the incoming value in    *)
(* every column the incoming row has; other rows stay; new handles are     *)
(* inserted                                                                *)
AddColumns(old, new) ==
    [k \in DOMAIN old \cup DOMAIN new |->
        IF k \in DOMAIN new /\ k \in DOMAIN old
              /\ k \in {"total_tweets", "total_likes", "total_retweets", "total_replies"}
        THEN old[k] + new[k]
        ELSE IF k \in DOMAIN new THEN new[k] ELSE old[k]]
OverwriteColumns(old, new) ==
    [k \in DOMAIN old \cup DOMAIN new |-> IF k \in DOMAIN new THEN new[k] ELSE old[k]]
UpsertUserRow(table, row) ==
    LET hit == {r \in table : r.handle = row.handle}
    IN  (table \ hit) \cup
          (IF hit = {} THEN {row} ELSE {OverwriteColumns(r, row) : r \in hit})
RECURSIVE UpsertUsers(_, _)
UpsertUsers(table, arr) ==
    IF arr = <<>> THEN table
    ELSE UpsertUsers(UpsertUserRow(table, Head(arr)), Tail(arr))

(* .upsert(tweetRecords, { onConflict: "id", ignoreDuplicates: true }):     *)
(* a record whose id is already stored is skipped, the others are appended *)
HasTweet(table, id) == \E i \in 1..Len(table) : table[i].id = id
RECURSIVE UpsertTweetsOverwriting(_, _)
UpsertTweetsOverwriting(table, records) ==
    IF records = <<>> THEN table
    ELSE LET rec == Head(records)
             t1 == IF HasTweet(table, rec.id)
                   THEN [i \in 1..Len(table) |->
                           IF table[i].id = rec.id THEN rec ELSE table[i]]
                   ELSE Append(table, rec)
         IN  UpsertTweetsOverwriting(t1, Tail(records))
RECURSIVE UpsertTweets(_, _)
UpsertTweets(table, records) ==
    IF records = <<>> THEN table
    ELSE LET rec == Head(records)
             t1 == IF HasTweet(table, rec.id) THEN table ELSE Append(table, rec)
         IN  UpsertTweets(t1, Tail(records))

(* the windows of posts the upstream API answers successive runs with:     *)
(* the same post (its id is its position) can come back with other text    *)
(* and counters, under the same or another author                          *)
SyncKinds ==
    { <<Author2, [favorite_count |-> 1, likeCount |-> Undefined,
                  retweet_count |-> 1, retweetCount |-> Undefined,
                  reply_count |-> Undefined, replyCount |-> Undefined,
                  created_at |-> 2, createdAt |-> Undefined], 1>>,
      <<Author1, [favorite_count |-> Undefined, likeCount |-> Undefined,
                  retweet_count |-> Undefined, retweetCount |-> Undefined,
                  reply_count |-> Undefined, replyCount |-> Undefined,
                  created_at |-> 3, createdAt |-> Undefined], 2>> }
SyncBatches ==
    UNION { { [i \in 1..n |-> [MkTweet(k[i][1], k[i][2], i) EXCEPT !.text = k[i][3]]]
                : k \in [1..n -> SyncKinds] } : n \in 0..MaxSyncPosts }

(* res.status(500).json({ success: false, error: "Sync failed",            *)
(*                        message: error.message, ... })                   *)
SyncFailure(message) ==
    [status |-> 500, success |-> FALSE, error |-> "Sync failed", message |-> message]
(* error.message of the rejected axios.get, and of tweetsError *)
UpstreamMessage == "upstream request failed"
TweetsMessage == "tweets upsert failed"
SyncInit ==
    /\ tweets = <<>> /\ cursor = 0 /\ userStats = EmptyStats
    /\ leaderboardCache = <<>> /\ ipc = "idle"
    /\ StoreIdle
    /\ tweetRecords = <<>> /\ syncResponse = [status |-> 0] /\ ypc = "fetch"
    /\ runs = 1 /\ syncLog = <<>>
    /\ ServeIdle /\ ClientIdle

(* const response = await axios.get(..., { timeout: 15000 }) *)
SyncFetch ==
    /\ ypc = "fetch"
    /\ \E b \in Batches : tweets' = b
    /\ ypc' = "loop"
    /\ UNCHANGED <<cursor, userStats, leaderboardCache, stoVars, ipc, tweetRecords,
                   syncResponse, runs, syncLog, srvVars, cliVars>>

(* the same call, in a run that others follow *)
SyncFetchWindow ==
    /\ ypc = "fetch"
    /\ \E b \in SyncBatches : tweets' = b
    /\ ypc' = "loop"
    /\ UNCHANGED <<cursor, userStats, leaderboardCache, stoVars, ipc, tweetRecords,
                   syncResponse, runs, syncLog, srvVars, cliVars>>

(* axios.get rejects or times out: the catch block answers 500 *)
SyncFetchFails ==
    /\ ypc = "fetch"
    /\ syncResponse' = SyncFailure(UpstreamMessage)
    /\ ypc' = "done"
    /\ UNCHANGED <<idxVars, tweetRecords, runs, syncLog, srvVars, cliVars>>

(* one iteration of for (const tweet of tweets) *)
SyncProcessTweet ==
    /\ ypc = "loop"
    /\ cursor < Len(tweets)
    /\ LET tweet == tweets[cursor + 1] IN
         IF ~AuthorOf(tweet).present
         THEN /\ cursor' = cursor + 1
              /\ UNCHANGED <<userStats, tweetRecords, syncResponse, ypc>>
         ELSE IF IsoThrows(tweet)
         THEN \* the counters are updated, then toISOString throws: catch, 500
              /\ userStats' = SyncAccumulate(userStats, tweet)
              /\ syncResponse' = SyncFailure("Invalid time value")
              /\ ypc' = "done"
              /\ UNCHANGED <<cursor, tweetRecords>>
         ELSE /\ userStats' = SyncAccumulate(userStats, tweet)
              /\ tweetRecords' = Append(tweetRecords, TweetRecord(tweet))
              /\ cursor' = cursor + 1
              /\ UNCHANGED <<syncResponse, ypc>>
    /\ UNCHANGED <<tweets, leaderboardCache, stoVars, ipc, runs, syncLog, srvVars, cliVars>>

(* the loop is over: the users upsert succeeds *)
SyncUpsertUsers ==
    /\ ypc = "loop"
    /\ cursor = Len(tweets)
    /\ usersTable' = UpsertUsers(usersTable, UsersArray(userStats))
    /\ syncLog' = Append(syncLog, [run |-> runs, table |-> "users", batch |-> tweets,
                                   rows |-> UsersArray(userStats),
                                   before |-> usersTable, after |-> usersTable'])
    /\ ypc' = "tweets"
    /\ UNCHANGED <<idxVars, tweetRecords, syncResponse, runs, tweetsTable, usersRead,
                   subReads, completionOrder, response, spc, cliVars>>

(* the users upsert answers an error: throw usersError, catch, 500 *)
SyncUpsertUsersFails ==
    /\ ypc = "loop"
    /\ cursor = Len(tweets)
    /\ syncResponse' = SyncFailure("users upsert failed")
    /\ ypc' = "done"
    /\ UNCHANGED <<idxVars, tweetRecords, runs, syncLog, srvVars, cliVars>>

(* the tweets upsert succeeds: the 200 response with the counts *)
SyncUpsertTweets ==
    /\ ypc = "tweets"
    /\ tweetsTable' = UpsertTweets(tweetsTable, tweetRecords)
    /\ syncLog' = Append(syncLog, [run |-> runs, table |-> "tweets", batch |-> tweets,
                                   rows |-> tweetRecords,
                                   before |-> tweetsTable, after |-> tweetsTable'])
    /\ syncResponse' = [status |-> 200, success |-> TRUE,
                        users |-> Len(UsersArray(userStats)),
                        newTweets |-> Len(tweetsTable') - Len(tweetsTable),
                        totalTweets |-> Len(tweetRecords)]
    /\ ypc' = "done"
    /\ UNCHANGED <<idxVars, tweetRecords, runs, usersTable, usersRead,
                   subReads, completionOrder, response, spc, cliVars>>

(* the tweets upsert answers an error: throw tweetsError, catch, 500 *)
SyncUpsertTweetsFails ==
    /\ ypc = "tweets"
    /\ syncResponse' = SyncFailure(TweetsMessage)
    /\ ypc' = "done"
    /\ UNCHANGED <<idxVars, tweetRecords, runs, syncLog, srvVars, cliVars>>

(* the handler is invoked again (cron, or a manual trigger): fresh locals, *)
(* the same tables                                                         *)
SyncAgain ==
    /\ ypc = "done"
    /\ runs < MaxRuns
    /\ runs' = runs + 1
    /\ tweets' = <<>> /\ cursor' = 0 /\ userStats' = EmptyStats
    /\ tweetRecords' = <<>> /\ syncResponse' = [status |-> 0]
    /\ ypc' = "fetch"
    /\ UNCHANGED <<leaderboardCache, stoVars, ipc, syncLog, srvVars, cliVars>>

SyncNext ==
    \/ SyncFetch \/ SyncFetchFails \/ SyncProcessTweet
    \/ SyncUpsertUsers \/ SyncUpsertUsersFails
    \/ SyncUpsertTweets \/ SyncUpsertTweetsFails

(* successive sync runs against the same tables *)
SyncRunsNext ==
    \/ SyncFetchWindow \/ SyncFetchFails \/ SyncProcessTweet
    \/ SyncUpsertUsers \/ SyncUpsertUsersFails
    \/ SyncUpsertTweets \/ SyncUpsertTweetsFails
    \/ SyncAgain
SpecSync == SyncInit /\ [][SyncRunsNext]_vars

-----------------------------------------------------------------------------
(* ---------------- Snapshot read endpoint (get-leaderboard handler) ------- *)

(* Contents of the users table: one row per handle (unique key) *)
UserStatsVariants ==
    { [total_tweets |-> 1, total_likes |-> 1, total_retweets |-> 0],
      [total_tweets |-> 1, total_likes |-> 0, total_retweets |-> 1],
      [total_tweets |-> 2, total_likes |-> 1, total_retweets |-> 1] }
UserRow(h, st) ==
    [handle |-> h, name |-> h, avatar |-> <<>>,
     total_tweets |-> st.total_tweets, total_likes |-> st.total_likes,
     total_retweets |-> st.total_retweets]
StoredHandles == {"al", "bob"}
UserTables ==
    { {UserRow(h, f[h]) : h \in D} : f \in [StoredHandles -> UserStatsVariants],
                                     D \in SUBSET StoredHandles }

(* Contents of the tweets table, in insertion order; tweet_date in half days *)
(* a row is dated after the rows inserted before it ("later"), or at one   *)
(* fixed instant that several rows share ("same")                          *)
TweetRowKinds == { <<"al", "later">>, <<"al", "same">>, <<"bob", "later">> }
TweetRow(i, k) ==
    [id |-> i, user_handle |-> k[1], text |-> i,
     tweet_date |-> IF k[2] = "later" THEN 2 * i ELSE 5,
     likes |-> i, retweets |-> 0]
TweetTablesUpTo(kinds, max) ==
    UNION { { [i \in 1..n |-> TweetRow(i, k[i])] : k \in [1..n -> kinds] }
            : n \in 0..max }
FullUserTable == { UserRow(h, [total_tweets |-> 1, total_likes |-> 1,
                               total_retweets |-> 0]) : h \in StoredHandles }
(* the stored state: any users table over a few posts of both users, or   *)
(* both users over many posts of one of them                               *)
StoredStates ==
    (UserTables \X TweetTablesUpTo(TweetRowKinds, MaxFewRows))
        \cup ({FullUserTable} \X
                 TweetTablesUpTo({k \in TweetRowKinds : k[1] = "al"}, MaxRows))

(* .order('total_likes', { ascending: false }): every order of the rows    *)
(* with total_likes non-increasing (rows that tie come in any order)       *)
RECURSIVE OrderedByLikes(_)
OrderedByLikes(rows) ==
    IF rows = {} THEN {<<>>}
    ELSE UNION { { <<r>> \o t : t \in OrderedByLikes(rows \ {r}) }
                 : r \in {x \in rows : \A y \in rows : y.total_likes <= x.total_likes} }

ReadLimit == 5

(* .eq('user_handle', h).order('tweet_date', { ascending: false }).limit(5) *)
RECURSIVE OldestFirst(_, _)
OldestFirst(rows, limit) ==
    IF rows = {} \/ limit = 0 THEN {<<>>}
    ELSE UNION { { <<r>> \o t : t \in OldestFirst(rows \ {r}, limit - 1) }
                 : r \in {x \in rows : \A y \in rows : x.tweet_date <= y.tweet_date} }
RECURSIVE NewestFirst(_, _)
NewestFirst(rows, limit) ==
    IF rows = {} \/ limit = 0 THEN {<<>>}
    ELSE UNION { { <<r>> \o t : t \in NewestFirst(rows \ {r}, limit - 1) }
                 : r \in {x \in rows : \A y \in rows : y.tweet_date <= x.tweet_date} }
RowsOf(table, h) == {table[i] : i \in {j \in 1..Len(table) : table[j].user_handle = h}}
RecentTweetsQuery(table, h) == NewestFirst(RowsOf(table, h), ReadLimit)

(* the object built for one user once its sub-read has resolved *)
ServeScore(user) == user.total_likes + user.total_retweets * 2 + user.total_tweets * 5
TweetView(row) ==
    [text |-> row.text, date |-> ToLocaleDateString(row.tweet_date),
     likes |-> row.likes, retweets |-> row.retweets]
ServeEntry(user, index, recent) ==
    [rank |-> index + 1, name |-> user.name, handle |-> <<"@", user.handle>>,
     avatarUrl |-> user.avatar,
     tweets |-> user.total_tweets, likes |-> user.total_likes,
     rts |-> user.total_retweets, score |-> ServeScore(user),
     recentTweets |-> [i \in 1..Len(recent) |-> TweetView(recent[i])]]

Pending == [done |-> FALSE, failed |-> FALSE, rows |-> <<>>]

ServeInit ==
    /\ \E st \in StoredStates : usersTable = st[1] /\ tweetsTable = st[2]
    /\ usersRead = <<>> /\ subReads = <<>> /\ completionOrder = <<>>
    /\ response = [status |-> 0] /\ spc = "query"
    /\ IndexIdle /\ SyncIdle /\ ClientIdle

(* const { data: users, error: usersError } = await supabase.from('users')... *)
QueryUsers ==
    /\ spc = "query"
    /\ \E ordered \in OrderedByLikes(usersTable) :
          /\ usersRead' = ordered
          /\ subReads' = [i \in 1..Len(ordered) |-> Pending]
    /\ spc' = "fanout"
    /\ UNCHANGED <<usersTable, tweetsTable, completionOrder, response,
                   idxVars, synVars, cliVars>>

(* usersError is set: throw usersError, handled by the catch block *)
QueryUsersFails ==
    /\ spc = "query"
    /\ response' = [status |-> 500, success |-> FALSE]
    /\ spc' = "done"
    /\ UNCHANGED <<usersTable, tweetsTable, usersRead, subReads, completionOrder,
                   idxVars, synVars, cliVars>>

(* one of the concurrent per-user reads resolves with rows *)
SubRead(i) ==
    /\ spc = "fanout"
    /\ ~subReads[i].done
    /\ \E rows \in RecentTweetsQuery(tweetsTable, usersRead[i].handle) :
          subReads' = [subReads EXCEPT ![i] = [done |-> TRUE, failed |-> FALSE, rows |-> rows]]
    /\ completionOrder' = Append(completionOrder, i)
    /\ UNCHANGED <<usersTable, tweetsTable, usersRead, response, spc, idxVars, synVars, cliVars>>

(* one of the per-user reads resolves with an error: data is null, and     *)
(* (recentTweets || []) makes it an empty list                             *)
SubReadFails(i) ==
    /\ spc = "fanout"
    /\ ~subReads[i].done
    /\ subReads' = [subReads EXCEPT ![i] = [done |-> TRUE, failed |-> TRUE, rows |-> <<>>]]
    /\ completionOrder' = Append(completionOrder, i)
    /\ UNCHANGED <<usersTable, tweetsTable, usersRead, response, spc, idxVars, synVars, cliVars>>

(* the entries in the order their sub-reads resolved, not Promise.all's *)
LeaderboardAsCompleted ==
    [k \in 1..Len(completionOrder) |->
        ServeEntry(usersRead[completionOrder[k]], completionOrder[k] - 1,
                   subReads[completionOrder[k]].rows)]
(* Promise.all resolves with the results at the positions of users.map *)
Leaderboard ==
    [i \in 1..Len(usersRead) |-> ServeEntry(usersRead[i], i - 1, subReads[i].rows)]

(* Promise.all has resolved: res.status(200).json({...}) *)
Respond ==
    /\ spc = "fanout"
    /\ \A i \in 1..Len(subReads) : subReads[i].done
    /\ response' = [status |-> 200, success |-> TRUE, data |-> Leaderboard,
                    totalUsers |-> Len(Leaderboard)]
    /\ spc' = "done"
    /\ UNCHANGED <<usersTable, tweetsTable, usersRead, subReads, completionOrder,
                   idxVars, synVars, cliVars>>

ServeNext ==
    \/ QueryUsers \/ QueryUsersFails
    \/ \E i \in 1..Len(subReads) : SubRead(i) \/ SubReadFails(i)
    \/ Respond

-----------------------------------------------------------------------------
(* ---------------- Client: cache helpers, mergeWithCache, loadData -------- *)

(* Leaderboard entries as JSON objects: functions from their keys.         *)
(* JsNull is the JSON value null appearing as an array element.            *)
JsNull == [jsnull |-> TRUE]
EntryKinds ==
    { [handle |-> "@a", likes |-> 5, extra |-> "x"],
      [handle |-> "@a", likes |-> 10],
      [handle |-> "@b", likes |-> 5],
      [likes |-> 7] }
ArraysOver(kinds, max) == UNION { [1..n -> kinds] : n \in 0..max }

(* What localStorage holds under CACHE_KEY: nothing, a string that is not  *)
(* JSON, a JSON value that is no array, or a JSON array                    *)
CacheContents ==
    { [kind |-> "absent", arr |-> <<>>], [kind |-> "corrupt", arr |-> <<>>],
      [kind |-> "object", arr |-> <<>>] }
    \cup { [kind |-> "array", arr |-> a] : a \in ArraysOver(EntryKinds \cup {JsNull}, MaxCached) }
IncomingArrays == ArraysOver(EntryKinds \cup {JsNull}, MaxIncoming)

(* readCache: { data, timestamp }; data is null unless the raw string      *)
(* parses, timestamp is null when absent or when parsing threw             *)
ReadCache(ls, ts) ==
    CASE ls.kind = "absent"  -> [isArray |-> FALSE, arr |-> <<>>, timestamp |-> ts]
      [] ls.kind = "corrupt" -> [isArray |-> FALSE, arr |-> <<>>, timestamp |-> Undefined]
      [] ls.kind = "object"  -> [isArray |-> FALSE, arr |-> <<>>, timestamp |-> ts]
      [] ls.kind = "array"   -> [isArray |-> TRUE, arr |-> ls.arr, timestamp |-> ts]

(* Array.isArray(parsedData) && parsedData.length > 0 *)
CacheMissAlways(data) == FALSE
NonEmptyArray(data) == data.isArray /\ Len(data.arr) > 0

(* u.handle: undefined when the object has no such key *)
HandleKey(u) == IF "handle" \in DOMAIN u THEN u.handle ELSE "undefined"

(* map after cached.forEach((u) => map.set(u.handle, u)): the last entry   *)
(* set under a handle is the one the map holds                             *)
MapGetFirst(cached, h) ==
    LET hits == {i \in 1..Len(cached) : HandleKey(cached[i]) = h}
    IN  IF hits = {} THEN <<>>
        ELSE cached[CHOOSE i \in hits : \A j \in hits : i <= j]
MapGet(cached, h) ==
    LET hits == {i \in 1..Len(cached) : HandleKey(cached[i]) = h}
    IN  IF hits = {} THEN <<>>
        ELSE cached[CHOOSE i \in hits : \A j \in hits : j <= i]

(* { ...c, ...u } *)
SpreadCachedWins(c, u) ==
    [k \in DOMAIN c \cup DOMAIN u |-> IF k \in DOMAIN c THEN c[k] ELSE u[k]]
Spread(c, u) ==
    [k \in DOMAIN c \cup DOMAIN u |-> IF k \in DOMAIN u THEN u[k] ELSE c[k]]

(* mergeWithCache(incoming): reading .handle of null throws a TypeError *)
MergeWithCache(inc, ls, ts) ==
    LET cached == ReadCache(ls, ts)
    IN  IF ~NonEmptyArray(cached) THEN [threw |-> FALSE, val |-> inc]
        ELSE IF (\E i \in 1..Len(cached.arr) : cached.arr[i] = JsNull)
                \/ (\E i \in 1..Len(inc) : inc[i] = JsNull)
        THEN [threw |-> TRUE, val |-> <<>>]
        ELSE [threw |-> FALSE,
              val |-> [i \in 1..Len(inc) |->
                         Spread(MapGet(cached.arr, HandleKey(inc[i])), inc[i])]]

(* fallbackData.map((u, i) => ({ ...u, rank: i + 1 })) ; ...null adds nothing *)
WithRankKept(u, r) ==
    LET o == IF u = JsNull THEN <<>> ELSE u
    IN  [k \in DOMAIN o \cup {"rank"} |-> IF k \in DOMAIN o THEN o[k] ELSE r]
WithRank(u, r) ==
    LET o == IF u = JsNull THEN <<>> ELSE u
    IN  [k \in DOMAIN o \cup {"rank"} |-> IF k = "rank" THEN r ELSE o[k]]
RankByPosition(arr) == [i \in 1..Len(arr) |-> WithRank(arr[i], i)]

(* saveCache(arr): setItem may throw (storage full or denied) at either    *)
(* call; the exception is caught and logged                                *)
SaveModes == {"saved", "firstThrows", "secondThrows"}
SavedDataNever(ls, arr, mode) == ls
SavedData(ls, arr, mode) ==
    IF mode = "firstThrows" THEN ls ELSE [kind |-> "array", arr |-> arr]
SavedTs(ts, t, mode) == IF mode = "saved" THEN t ELSE ts

(* ---- the two fetches of loadData and what they can settle to ---- *)
HourMs == 3600000          \* 1000 * 60 * 60
RemoteTimeoutMs == 15000   \* AbortSignal.timeout(15000)

Settled(kind, settled, ok, parses, success, isArray, data, elapsed) ==
    [kind |-> kind, settled |-> settled, ok |-> ok, parses |-> parses,
     success |-> success, isArray |-> isArray, data |-> data, elapsed |-> elapsed]

(* a payload a failing response may still carry *)
Payload == <<[handle |-> "@b", likes |-> 5]>>

(* fetch("/api/get-leaderboard", { signal: AbortSignal.timeout(15000) }):   *)
(* it rejects (network error), is aborted when the time box elapses, or    *)
(* answers; the body is JSON or not; result.success, result.data           *)
RemoteResponses ==
    { Settled("rejected", "rejected", FALSE, FALSE, FALSE, FALSE, <<>>, 1000),
      Settled("timeout", "timeout", FALSE, FALSE, FALSE, FALSE, <<>>, RemoteTimeoutMs),
      Settled("notOk", "response", FALSE, TRUE, TRUE, TRUE, Payload, 1000),
      Settled("badJson", "response", TRUE, FALSE, FALSE, FALSE, <<>>, 1000),
      Settled("unsuccessful", "response", TRUE, TRUE, FALSE, TRUE, Payload, 1000),
      Settled("notArray", "response", TRUE, TRUE, TRUE, FALSE, <<>>, 1000),
      Settled("empty", "response", TRUE, TRUE, TRUE, TRUE, <<>>, 1000) }
    \cup { Settled("valid", "response", TRUE, TRUE, TRUE, TRUE, d, 1000)
             : d \in IncomingArrays \ {<<>>} }
RemoteFailures ==
    {"rejected", "timeout", "notOk", "badJson", "unsuccessful", "notArray", "empty"}

(* response.ok, then result.success && Array.isArray(result.data) &&       *)
(* result.data.length > 0, of a fetch that resolved and a body that parsed *)
RemoteUsableAnyLength(resp) ==
    /\ resp.settled = "response" /\ resp.ok /\ resp.parses
    /\ resp.success /\ resp.isArray
RemoteUsableAnyStatus(resp) ==
    /\ resp.settled = "response" /\ resp.parses
    /\ resp.success /\ resp.isArray /\ Len(resp.data) > 0
RemoteUsable(resp) ==
    /\ resp.settled = "response" /\ resp.ok /\ resp.parses
    /\ resp.success /\ resp.isArray /\ Len(resp.data) > 0

(* fetch("api/users.json"): no time box; the file's entries carry no rank, *)
(* or carry one of their own, or are null                                  *)
StaticKinds ==
    { [handle |-> "@a", likes |-> 5], [handle |-> "@b", likes |-> 5, rank |-> 7], JsNull }
StaticArrays == ArraysOver(StaticKinds, MaxIncoming)
StaticResponses ==
    { Settled("rejected", "rejected", FALSE, FALSE, FALSE, FALSE, <<>>, 1000),
      Settled("notOk", "response", FALSE, TRUE, FALSE, TRUE, Payload, 1000),
      Settled("badJson", "response", TRUE, FALSE, FALSE, FALSE, <<>>, 1000),
      Settled("notArray", "response", TRUE, TRUE, FALSE, FALSE, <<>>, 1000),
      Settled("empty", "response", TRUE, TRUE, FALSE, TRUE, <<>>, 1000) }
    \cup { Settled("valid", "response", TRUE, TRUE, FALSE, TRUE, d, 1000)
             : d \in StaticArrays \ {<<>>} }
StaticFailures == {"rejected", "notOk", "badJson", "notArray", "empty"}

(* fallbackResponse.ok, then Array.isArray(fallbackData) &&                *)
(* fallbackData.length > 0                                                 *)
StaticUsableAnyStatus(resp) ==
    /\ resp.settled = "response" /\ resp.parses
    /\ resp.isArray /\ Len(resp.data) > 0
StaticUsable(resp) ==
    /\ resp.settled = "response" /\ resp.ok /\ resp.parses
    /\ resp.isArray /\ Len(resp.data) > 0

(* cachedTimestamp ? Math.floor((Date.now() - parseInt(cachedTimestamp))   *)
(*                              / (1000 * 60 * 60)) : "unknown"            *)
CacheAgeRoundedUp(ts, t) ==
    IF Truthy(ts) THEN [logged |-> TRUE, known |-> TRUE,
                        hours |-> ((t - ts) + HourMs - 1) \div HourMs]
    ELSE [logged |-> TRUE, known |-> FALSE, hours |-> 0]
CacheAge(ts, t) ==
    IF Truthy(ts) THEN [logged |-> TRUE, known |-> TRUE, hours |-> (t - ts) \div HourMs]
    ELSE [logged |-> TRUE, known |-> FALSE, hours |-> 0]

(* ---- mergeWithCache on its own: any cache, any incoming array ---- *)
MergeInit ==
    /\ lsData \in CacheContents /\ lsTs = Undefined
    /\ incoming \in IncomingArrays
    /\ merged = [threw |-> FALSE, val |-> <<>>] /\ users = <<>>
    /\ isLiveData = FALSE /\ loading = TRUE /\ now = 0
    /\ remote = "none" /\ static = "none"
    /\ result = NoResponse /\ fallback = NoResponse /\ cacheAge = NoAge
    /\ saveOutcome = "none"
    /\ tierLog = <<>> /\ outcome = "none" /\ lpc = "merge"
    /\ ViewStart
    /\ IndexIdle /\ SyncIdle /\ ServeIdle

MergeCall ==
    /\ lpc = "merge"
    /\ merged' = MergeWithCache(incoming, lsData, lsTs)
    /\ lpc' = "merged"
    /\ UNCHANGED <<lsData, lsTs, incoming, users, isLiveData, loading, now,
                   remote, static, result, fallback, cacheAge, saveOutcome,
                   tierLog, outcome, viewVars,
                   idxVars, synVars, srvVars>>

(* ---- the component: mount effect, then loadData ---- *)
MountInit ==
    /\ lsData \in CacheContents /\ lsTs \in {Undefined, 3000000}
    /\ incoming = <<>>
    /\ merged = [threw |-> FALSE, val |-> <<>>] /\ users = <<>>
    /\ isLiveData = FALSE /\ loading = TRUE /\ now = 41500000
    /\ remote = "none" /\ static = "none"
    /\ result = NoResponse /\ fallback = NoResponse /\ cacheAge = NoAge
    /\ saveOutcome = "none"
    /\ tierLog = <<>> /\ outcome = "none" /\ lpc = "mount"
    /\ ViewStart
    /\ IndexIdle /\ SyncIdle /\ ServeIdle

(* useEffect on mount: the instant read from the cache *)
InstantLoad ==
    /\ lpc = "mount"
    /\ LET c == ReadCache(lsData, lsTs) IN
         IF NonEmptyArray(c)
         THEN users' = c.arr /\ loading' = FALSE
         ELSE UNCHANGED <<users, loading>>
    /\ lpc' = "mounted"
    /\ UNCHANGED <<lsData, lsTs, incoming, merged, isLiveData, now, remote, static,
                   result, fallback, cacheAge, saveOutcome, tierLog, outcome,
                   viewVars,
                   idxVars, synVars, srvVars>>

(* loadData(): setLoading(true) and the remote fetch is issued *)
LoadDataStart ==
    /\ lpc = "mounted"
    /\ loading' = TRUE
    /\ remote' = "pending"
    /\ tierLog' = Append(tierLog, [tier |-> "remote", hit |-> FALSE])
    /\ lpc' = "remote"
    /\ UNCHANGED <<lsData, lsTs, incoming, merged, users, isLiveData, now, static,
                   result, fallback, cacheAge, saveOutcome, outcome,
                   viewVars,
                   idxVars, synVars, srvVars>>

(* a catch block whose return on a cache hit skips the finally clause *)
CatchBlockSkippingFinally ==
    LET c == ReadCache(lsData, lsTs) IN
    /\ isLiveData' = FALSE
    /\ tierLog' = IF NonEmptyArray(c)
                  THEN Append(tierLog, [tier |-> "cache", hit |-> TRUE])
                  ELSE Append(Append(tierLog, [tier |-> "cache", hit |-> FALSE]),
                              [tier |-> "static", hit |-> FALSE])
    /\ IF NonEmptyArray(c)
       THEN /\ users' = c.arr
            /\ cacheAge' = CacheAge(c.timestamp, now')
            /\ outcome' = "tier2"
            /\ lpc' = "done"
            /\ UNCHANGED <<static, loading>>
       ELSE /\ static' = "pending"
            /\ lpc' = "static"
            /\ UNCHANGED <<users, cacheAge, loading, outcome>>
(* the catch block: setIsLiveData(false), the cache is read; a non-empty   *)
(* array is shown, its age is logged and loadData returns, otherwise the   *)
(* static file is fetched.  now' is the time the catch block runs at.      *)
CatchBlock ==
    LET c == ReadCache(lsData, lsTs) IN
    /\ isLiveData' = FALSE
    /\ tierLog' = IF NonEmptyArray(c)
                  THEN Append(tierLog, [tier |-> "cache", hit |-> TRUE])
                  ELSE Append(Append(tierLog, [tier |-> "cache", hit |-> FALSE]),
                              [tier |-> "static", hit |-> FALSE])
    /\ IF NonEmptyArray(c)
       THEN /\ users' = c.arr
            /\ cacheAge' = CacheAge(c.timestamp, now')
            /\ loading' = FALSE
            /\ outcome' = "tier2"
            /\ lpc' = "done"
            /\ UNCHANGED static
       ELSE /\ static' = "pending"
            /\ lpc' = "static"
            /\ UNCHANGED <<users, cacheAge, loading, outcome>>

(* the remote fetch rejects or times out, the status is not ok, the body   *)
(* is no JSON, or it is not { success, data: non-empty array }             *)
RemoteFails ==
    /\ lpc = "remote"
    /\ \E resp \in RemoteResponses :
          /\ ~RemoteUsable(resp)
          /\ result' = resp
          /\ remote' = resp.kind
          /\ now' = now + resp.elapsed
    /\ CatchBlock
    /\ UNCHANGED <<lsData, lsTs, incoming, merged, fallback, saveOutcome,
                   viewVars,
                   idxVars, synVars, srvVars>>

(* the remote fetch answers ok with success and a non-empty data array:    *)
(* merge, save, surface; a merge that throws lands in the catch block      *)
RemoteSucceeds ==
    /\ lpc = "remote"
    /\ \E resp \in RemoteResponses, mode \in SaveModes :
          LET m == MergeWithCache(resp.data, lsData, lsTs) IN
          /\ RemoteUsable(resp)
          /\ result' = resp
          /\ remote' = resp.kind
          /\ now' = now + resp.elapsed
          /\ incoming' = resp.data
          /\ merged' = m
          /\ IF m.threw
             THEN CatchBlock /\ UNCHANGED <<lsData, lsTs, saveOutcome>>
             ELSE /\ saveOutcome' = mode
                  /\ lsData' = SavedData(lsData, m.val, mode)
                  /\ lsTs' = SavedTs(lsTs, now', mode)
                  /\ users' = m.val
                  /\ isLiveData' = TRUE
                  /\ loading' = FALSE
                  /\ outcome' = "tier1"
                  /\ lpc' = "done"
                  /\ UNCHANGED <<static, cacheAge, tierLog>>
    /\ UNCHANGED <<fallback, viewVars,
                   idxVars, synVars, srvVars>>

(* the static fetch answers ok with a non-empty array: rank, surface, save *)
StaticSucceeds ==
    /\ lpc = "static"
    /\ \E resp \in StaticResponses, mode \in SaveModes :
          LET rankedData == RankByPosition(resp.data) IN
          /\ StaticUsable(resp)
          /\ fallback' = resp
          /\ static' = resp.kind
          /\ now' = now + resp.elapsed
          /\ users' = rankedData
          /\ saveOutcome' = mode
          /\ lsData' = SavedData(lsData, rankedData, mode)
          /\ lsTs' = SavedTs(lsTs, now', mode)
    /\ loading' = FALSE
    /\ outcome' = "tier3"
    /\ lpc' = "done"
    /\ UNCHANGED <<incoming, merged, isLiveData, remote, result, cacheAge, tierLog,
                   viewVars,
                   idxVars, synVars, srvVars>>

(* a total failure that also caches the empty list it surfaces *)
StaticFailsCachingEmpty ==
    /\ lpc = "static"
    /\ \E resp \in StaticResponses :
          /\ ~StaticUsable(resp)
          /\ fallback' = resp
          /\ static' = resp.kind
          /\ now' = now + resp.elapsed
    /\ users' = <<>>
    /\ lsData' = SavedData(lsData, <<>>, "saved")
    /\ lsTs' = SavedTs(lsTs, now', "saved")
    /\ loading' = FALSE
    /\ outcome' = "empty"
    /\ lpc' = "done"
    /\ UNCHANGED <<incoming, merged, isLiveData, remote, result,
                   cacheAge, saveOutcome, tierLog, viewVars,
                   idxVars, synVars, srvVars>>
(* the static fetch rejects, is not ok, is no JSON or no non-empty array:  *)
(* setUsers([])                                                            *)
StaticFails ==
    /\ lpc = "static"
    /\ \E resp \in StaticResponses :
          /\ ~StaticUsable(resp)
          /\ fallback' = resp
          /\ static' = resp.kind
          /\ now' = now + resp.elapsed
    /\ users' = <<>>
    /\ loading' = FALSE
    /\ outcome' = "empty"
    /\ lpc' = "done"
    /\ UNCHANGED <<lsData, lsTs, incoming, merged, isLiveData, remote, result,
                   cacheAge, saveOutcome, tierLog, viewVars,
                   idxVars, synVars, srvVars>>

ClientInit == MergeInit \/ MountInit
ClientNext ==
    \/ MergeCall
    \/ InstantLoad \/ LoadDataStart
    \/ RemoteFails \/ RemoteSucceeds
    \/ StaticSucceeds \/ StaticFails
SpecClient == ClientInit /\ [][ClientNext]_vars

(* every awaited fetch settles: the remote one resolves, rejects or is     *)
(* aborted by its time box, the static one resolves or rejects             *)
FetchesSettle ==
    /\ WF_vars(RemoteFails \/ RemoteSucceeds)
    /\ WF_vars(StaticSucceeds \/ StaticFails)
SpecClientLive == SpecClient /\ FetchesSettle

-----------------------------------------------------------------------------
(* The server side: an indexing run, a sync run, or one request to the     *)
(* read endpoint                                                           *)
Init == IndexInit \/ SyncInit \/ ServeInit
Next == IndexNext \/ SyncNext \/ ServeNext
Spec == Init /\ [][Next]_vars

-----------------------------------------------------------------------------
(* ---------------- Properties ---------------- *)

Ranked == ipc = "ranked"
Served == spc = "done" /\ response.status = 200
Entries(arr) == {arr[i] : i \in 1..Len(arr)}

(* C1: every author entry of an indexing run, and every entry the read     *)
(* endpoint returns, has score = likes + 2*rts + 5*tweets on its own       *)
(* counters.                                                               *)
ScoreIsExact(e) == e.score = e.likes + 2 * e.rts + 5 * e.tweets
C1_ScoreExact ==
    /\ Ranked => \A e \in Entries(leaderboardCache) : ScoreIsExact(e)
    /\ Served => \A e \in Entries(response.data) : ScoreIsExact(e)
C1_Witness ==
    /\ Ranked
    /\ \E e \in Entries(leaderboardCache) : e.likes > 0 /\ e.rts > 0 /\ e.tweets > 1

(* C2: in the snapshot of an indexing run the ranks are exactly 1..N, one  *)
(* per entry, and the entry at rank k has score >= the entry at rank k+1.  *)
AuthoredIds(batch) ==
    { AuthorIdOf(AuthorOf(batch[i])) : i \in {j \in 1..Len(batch) : AuthorOf(batch[j]).present} }
C2_DenseRanks ==
    Ranked =>
      /\ Len(leaderboardCache) = Cardinality(AuthoredIds(tweets))
      /\ {leaderboardCache[i].rank : i \in 1..Len(leaderboardCache)} = 1..Len(leaderboardCache)
      /\ \A i, j \in 1..Len(leaderboardCache) :
            leaderboardCache[i].rank = leaderboardCache[j].rank => i = j
      /\ \A a, b \in Entries(leaderboardCache) :
            b.rank = a.rank + 1 => a.score >= b.score
C2_Witness ==
    /\ Ranked
    /\ Len(leaderboardCache) = 3
    /\ leaderboardCache[1].score > leaderboardCache[2].score
    /\ leaderboardCache[2].score > leaderboardCache[3].score
    /\ leaderboardCache[1].recentTweets[1].text > leaderboardCache[3].recentTweets[1].text

(* C3: in every successful response of the read endpoint the entry with    *)
(* rank k has score >= the entry with rank k+1.                            *)
C3_ServedByScore ==
    Served => \A a, b \in Entries(response.data) :
                 b.rank = a.rank + 1 => a.score >= b.score

(* C4: in an indexing run two authors with equal scores are ranked in      *)
(* first-seen order: the one whose first post comes earlier in the batch   *)
(* has the lower rank.  The first post of an entry is its first recent     *)
(* tweet, whose text is the post's number in the batch.                    *)
FirstSeen(e) == e.recentTweets[1].text
C4_TiesFirstSeen ==
    Ranked => \A a, b \in Entries(leaderboardCache) :
                 (a.score = b.score /\ FirstSeen(a) < FirstSeen(b)) => a.rank < b.rank


(* C5: the per-author post counts of the aggregation loop add up to the    *)
(* number of posts that carry an author sub-record; a post without one     *)
(* changes no accumulator and the loop goes on to the posts after it.      *)
Authored(n) == {i \in 1..n : AuthorOf(tweets[i]).present}
RECURSIVE SumOver(_, _)
SumOver(S, f) ==
    IF S = {} THEN 0
    ELSE LET x == CHOOSE y \in S : TRUE IN f[x] + SumOver(S \ {x}, f)
LikesUpTo(n) == SumOver(Authored(n), [i \in 1..Len(tweets) |-> LikesOf(tweets[i])])
C6_RecentAtMostFive ==
    /\ ipc \in {"loop", "ranked"} =>
          \A i \in 1..Len(userStats.val) : Len(userStats.val[i].recentTweets) <= 5
    /\ Ranked => \A e \in Entries(leaderboardCache) : Len(e.recentTweets) <= 5
    /\ Served => \A e \in Entries(response.data) : Len(e.recentTweets) <= 5
C6_Witness ==
    /\ Ranked
    /\ \E e \in Entries(leaderboardCache) : e.tweets > 5 /\ Len(e.recentTweets) = 5

(* C7, as claimed: recentTweets is the first min(5, n) of the author's     *)
(* posts in the order they were encountered (batch order when indexing,    *)
(* insertion order of the stored rows when serving, for a sub-read that    *)
(* succeeded over posts with pairwise different dates), never sorted by    *)
(* date.                                                                   *)
Min(a, b) == IF a < b THEN a ELSE b
FirstN(seq, n) == SubSeq(seq, 1, Min(n, Len(seq)))
Texts(recent) == [k \in 1..Len(recent) |-> recent[k].text]
PostsOf(id) ==
    SelectSeq([i \in 1..Len(tweets) |-> i],
              LAMBDA i : AuthorOf(tweets[i]).present
                         /\ AuthorIdOf(AuthorOf(tweets[i])) = id)
IdOfEntry(e) == AuthorIdOf(AuthorOf(tweets[FirstSeen(e)]))
IndexedRecentIsFirstSeen ==
    Ranked => \A e \in Entries(leaderboardCache) :
                 /\ e.tweets = Len(PostsOf(IdOfEntry(e)))
                 /\ Texts(e.recentTweets) = FirstN(PostsOf(IdOfEntry(e)), 5)
StoredIdsOf(h) ==
    SelectSeq([i \in 1..Len(tweetsTable) |-> tweetsTable[i].id],
              LAMBDA i : tweetsTable[i].user_handle = h)
DistinctDates(h) ==
    \A r1, r2 \in RowsOf(tweetsTable, h) : r1.tweet_date = r2.tweet_date => r1 = r2
C7_RecentFirstSeen ==
    /\ IndexedRecentIsFirstSeen
    /\ Served => \A i \in 1..Len(response.data) :
                    (~subReads[i].failed /\ DistinctDates(usersRead[i].handle)) =>
                       Texts(response.data[i].recentTweets)
                          = FirstN(StoredIdsOf(usersRead[i].handle), 5)

(* C7, amended: when indexing, recentTweets is the first min(5, n) of the  *)
(* author's posts in batch order; when serving, a sub-read that succeeded  *)
(* gives min(5, n) distinct stored posts of that author in non-increasing  *)
(* tweet_date order, none of them older than a post left out, and a        *)
(* sub-read that failed gives the empty list.                              *)
DateOfId(id) == tweetsTable[CHOOSE j \in 1..Len(tweetsTable) : tweetsTable[j].id = id].tweet_date
C7_RecentAmended ==
    /\ IndexedRecentIsFirstSeen
    /\ Served => \A i \in 1..Len(response.data) :
          LET got == Texts(response.data[i].recentTweets)
              all == Range(StoredIdsOf(usersRead[i].handle))
          IN  IF subReads[i].failed THEN got = <<>>
              ELSE /\ Len(got) = Min(5, Cardinality(all))
                   /\ Range(got) \subseteq all
                   /\ \A k, l \in 1..Len(got) : k < l =>
                         /\ got[k] /= got[l]
                         /\ DateOfId(got[k]) >= DateOfId(got[l])
                   /\ \A x \in all \ Range(got) : \A k \in 1..Len(got) :
                         DateOfId(x) <= DateOfId(got[k])
C7_Witness ==
    /\ Served
    /\ \E e \in Entries(response.data) :
          /\ Len(e.recentTweets) = 5
          /\ \E k \in 1..4 : e.recentTweets[k].text > e.recentTweets[k + 1].text
          /\ \E x \in Range(StoredIdsOf(e.handle[2])) : x \notin Range(Texts(e.recentTweets))


(* C8: merge precedence.  For every incoming entry and the cached entry    *)
(* with the same handle (the one the map holds: the last such entry of the *)
(* cache), the merged record has the incoming value under every key of the *)
(* incoming entry and the cached value under every key only the cached     *)
(* entry has; an incoming entry with no cached counterpart is returned as  *)
(* it is.  Entries are objects: the call returns.                          *)
MergeReturned == lpc = "merged" /\ ~merged.threw
CacheArray == IF lsData.kind = "array" THEN lsData.arr ELSE <<>>
IsCounterpart(j, u) ==
    /\ j \in 1..Len(CacheArray)
    /\ HandleKey(CacheArray[j]) = HandleKey(u)
    /\ \A l \in 1..Len(CacheArray) : HandleKey(CacheArray[l]) = HandleKey(u) => l <= j
C8_MergePrecedence ==
    MergeReturned =>
      /\ Len(merged.val) = Len(incoming)
      /\ \A i \in 1..Len(incoming) :
            /\ \A k \in DOMAIN incoming[i] :
                  k \in DOMAIN merged.val[i] /\ merged.val[i][k] = incoming[i][k]
            /\ \A j \in 1..Len(CacheArray) : IsCounterpart(j, incoming[i]) =>
                  /\ DOMAIN merged.val[i] = DOMAIN incoming[i] \cup DOMAIN CacheArray[j]
                  /\ \A k \in DOMAIN CacheArray[j] \ DOMAIN incoming[i] :
                        merged.val[i][k] = CacheArray[j][k]
            /\ (\A j \in 1..Len(CacheArray) : ~IsCounterpart(j, incoming[i])) =>
                  merged.val[i] = incoming[i]
C8_Witness ==
    /\ MergeReturned
    /\ CacheArray = <<[handle |-> "@a", likes |-> 5, extra |-> "x"]>>
    /\ incoming = <<[handle |-> "@a", likes |-> 10]>>
    /\ merged.val = <<[handle |-> "@a", likes |-> 10, extra |-> "x"]>>

(* C9, as claimed: mergeWithCache(S) evaluated while the cache holds S     *)
(* returns S, also when S has two entries with the same handle.            *)
SelfMerge ==
    /\ lpc = "merged"
    /\ lsData.kind = "array" /\ lsData.arr = incoming
    /\ \A i \in 1..Len(incoming) : incoming[i] /= JsNull
C9_MergeIdempotent == SelfMerge => (~merged.threw /\ merged.val = incoming)

(* C9, amended: mergeWithCache(S) with the cache holding S returns S       *)
(* exactly when no entry of S lacks a key that the last entry of S with    *)
(* the same handle has (so whenever the handles are pairwise distinct, or  *)
(* all entries of a handle have the same keys); otherwise the earlier      *)
(* entry gains the keys of the later one and the result differs from S.    *)
KeysCovered(S) ==
    \A i, j \in 1..Len(S) :
       (HandleKey(S[i]) = HandleKey(S[j])
          /\ \A l \in 1..Len(S) : HandleKey(S[l]) = HandleKey(S[i]) => l <= j)
       => DOMAIN S[j] \subseteq DOMAIN S[i]
C9_IdempotentWhenKeysCovered ==
    SelfMerge => /\ ~merged.threw
                 /\ (merged.val = incoming) <=> KeysCovered(incoming)
C9_Witness ==
    /\ SelfMerge
    /\ Len(incoming) = 2
    /\ HandleKey(incoming[1]) = HandleKey(incoming[2])
    /\ incoming[1] /= incoming[2]
    /\ merged.val = incoming

(* C10: within one loadData run the tiers are attempted in the order       *)
(* remote, local cache, static snapshot, each at most once; the cache is   *)
(* read as a data source only after tier 1 has failed (the try block       *)
(* threw), and the static snapshot is fetched only after the cache gave no *)
(* non-empty array.                                                        *)
TierOrder == <<"remote", "cache", "static">>
Tier1Failed == remote \in RemoteFailures \/ (remote = "valid" /\ merged.threw)
CacheHoldsNonEmptyArray == lsData.kind = "array" /\ Len(lsData.arr) > 0
C10_TiersInOrder ==
    /\ Len(tierLog) <= 3
    /\ \A i \in 1..Len(tierLog) : tierLog[i].tier = TierOrder[i]
    /\ lpc \in {"remote", "static", "done"} => Len(tierLog) >= 1
    /\ remote = "pending" => Len(tierLog) = 1
    /\ Len(tierLog) >= 2 => Tier1Failed
    /\ Len(tierLog) = 3 => ~tierLog[2].hit
    /\ Len(tierLog) = 2 => (tierLog[2].hit /\ outcome = "tier2" /\ static = "none")
    /\ static /= "none" <=> Len(tierLog) = 3
    /\ lpc = "static" => ~CacheHoldsNonEmptyArray
    /\ outcome = "tier1" => (Len(tierLog) = 1 /\ remote = "valid")
    /\ outcome \in {"tier3", "empty"} => Len(tierLog) = 3
C10_Witness ==
    /\ lpc = "done" /\ outcome = "tier3"
    /\ remote = "rejected" /\ lsData.kind = "array"
    /\ Len(tierLog) = 3

(* ------------- loadData: the three tiers, one by one ------------------- *)
(* an HTTP-ok response whose body parsed to { success: true, data: a       *)
(* non-empty array }                                                       *)
ResponseIsValid(r) ==
    /\ r.settled = "response" /\ r.ok /\ r.parses
    /\ r.success /\ r.isArray /\ Len(r.data) > 0
(* an HTTP-ok static response whose body parsed to a non-empty array *)
SnapshotIsValid(r) ==
    /\ r.settled = "response" /\ r.ok /\ r.parses /\ r.isArray /\ Len(r.data) > 0
(* the step in which the remote fetch settles and the try block ends *)
Tier1Settles == lpc = "remote" /\ lpc' /= "remote"
(* the step in which the static fetch settles and loadData ends *)
Tier3Settles == lpc = "static" /\ lpc' = "done"

(* C11: tier 1 ends in success only on an HTTP-ok response with success    *)
(* true and a non-empty data array.  After a rejected fetch, a fetch       *)
(* aborted when the 15000 ms time box elapsed, a non-ok status, a body     *)
(* that is no JSON, success false, data that is no array or an empty       *)
(* array, the run goes on to read the cache (tier 2): the cache and its    *)
(* timestamp are not written, the status is not live, and the user list    *)
(* is the cache's array or stays as it was, whatever the response carried. *)
C11_Tier1Contract ==
    [][Tier1Settles =>
         /\ (outcome' = "tier1" => ResponseIsValid(result'))
         /\ (result'.settled = "timeout" => now' = now + RemoteTimeoutMs)
         /\ (~ResponseIsValid(result') =>
               /\ outcome' /= "tier1" /\ ~isLiveData'
               /\ lsData' = lsData /\ lsTs' = lsTs /\ saveOutcome' = "none"
               /\ Len(tierLog') >= 2 /\ tierLog'[2].tier = "cache"
               /\ users' = IF CacheHoldsNonEmptyArray THEN lsData.arr ELSE users)]_vars
C11_Witness ==
    /\ result.settled = "response" /\ ~result.ok /\ result.data = Payload
    /\ outcome = "tier2" /\ users /= Payload /\ ~isLiveData
    /\ saveOutcome = "none"

(* C12: when tier 1 has failed and the cache holds a non-empty array, the  *)
(* run ends in tier 2: the user list is exactly the cached array, the      *)
(* status is not live, the static snapshot is not fetched, and the logged  *)
(* age is unknown when no timestamp is stored and otherwise the whole      *)
(* number of hours h with h hours <= now - timestamp < h + 1 hours.        *)
C12_CacheFallback ==
    [][(Tier1Settles /\ Tier1Failed' /\ CacheHoldsNonEmptyArray) =>
         /\ lpc' = "done" /\ outcome' = "tier2"
         /\ users' = lsData.arr /\ ~isLiveData'
         /\ static' = "none" /\ fallback' = NoResponse
         /\ lsData' = lsData /\ lsTs' = lsTs
         /\ cacheAge'.logged
         /\ (cacheAge'.known <=> lsTs /= Undefined)
         /\ (cacheAge'.known =>
               /\ cacheAge'.hours * HourMs <= now' - lsTs
               /\ now' - lsTs < (cacheAge'.hours + 1) * HourMs)]_vars
C12_Witness ==
    /\ outcome = "tier2" /\ result.settled = "rejected"
    /\ Len(users) = 1 /\ users = lsData.arr
    /\ cacheAge.known /\ cacheAge.hours = 10
    /\ now - lsTs > 10 * HourMs
    /\ ~isLiveData /\ static = "none"

(* the ranked copy of a snapshot: as many entries, entry i carrying rank i *)
(* and otherwise the keys and values of the snapshot's entry i             *)
IsRankedCopy(arr, src) ==
    /\ Len(arr) = Len(src)
    /\ \A i \in 1..Len(src) :
          LET o == IF src[i] = JsNull THEN <<>> ELSE src[i] IN
          /\ DOMAIN arr[i] = DOMAIN o \cup {"rank"}
          /\ arr[i].rank = i
          /\ \A k \in DOMAIN o \ {"rank"} : arr[i][k] = o[k]
(* tier 1 failed and the cache is absent, unparseable, no array or empty:  *)
(* the static snapshot is fetched                                          *)
FallsThroughToStatic ==
    (Tier1Settles /\ Tier1Failed' /\ ~CacheHoldsNonEmptyArray)
       => (lpc' = "static" /\ static' = "pending" /\ users' = users)
(* C13, as claimed: after tier 1 failed and the cache gave no non-empty    *)
(* array, a static snapshot of N entries is surfaced as N entries ranked   *)
(* 1..N by position, and afterwards the cache holds exactly those entries  *)
(* with a fresh timestamp.                                                 *)
C13_StaticRankedAndCached ==
    [][/\ FallsThroughToStatic
       /\ (Tier3Settles /\ SnapshotIsValid(fallback')) =>
            /\ outcome' = "tier3" /\ IsRankedCopy(users', fallback'.data)
            /\ lsData' = [kind |-> "array", arr |-> users']
            /\ lsTs' = now']_vars
(* C13, amended: the same, and the cache holds exactly the ranked entries  *)
(* with a fresh timestamp when both storage writes succeed; when the write *)
(* of the entries throws, the cache and its timestamp stay as they were,   *)
(* and when the write of the timestamp throws, the ranked entries are      *)
(* stored under the timestamp that was there before.                       *)
C13_StaticRankedCachedIfWritable ==
    [][/\ FallsThroughToStatic
       /\ (Tier3Settles /\ SnapshotIsValid(fallback')) =>
            /\ outcome' = "tier3" /\ IsRankedCopy(users', fallback'.data)
            /\ saveOutcome' \in SaveModes
            /\ (saveOutcome' = "saved" =>
                  lsData' = [kind |-> "array", arr |-> users'] /\ lsTs' = now')
            /\ (saveOutcome' = "firstThrows" => lsData' = lsData /\ lsTs' = lsTs)
            /\ (saveOutcome' = "secondThrows" =>
                  lsData' = [kind |-> "array", arr |-> users'] /\ lsTs' = lsTs)]_vars
C13_Witness ==
    /\ outcome = "tier3" /\ saveOutcome = "saved"
    /\ result.settled = "rejected"
    /\ Len(users) = 2 /\ users[1].rank = 1 /\ users[2].rank = 2
    /\ fallback.data[2] /= JsNull /\ "rank" \in DOMAIN fallback.data[2]
    /\ fallback.data[2].rank /= 2
    /\ lsData = [kind |-> "array", arr |-> users] /\ lsTs = now

(* C14: when tier 1 has failed, the cache gave no non-empty array and the  *)
(* static fetch rejected, was not ok, was no JSON or no non-empty array,   *)
(* loadData has ended (nothing was thrown out of it: the finally block     *)
(* ran) with an empty user list and the status not live; this for every    *)
(* kind of failure of the three sources.                                   *)
C14_AllTiersFailEmpty ==
    /\ outcome \in {"none", "tier1", "tier2", "tier3", "empty"}
    /\ (lpc = "done" => outcome /= "none" /\ ~loading)
    /\ (fallback.settled /= "none" /\ ~SnapshotIsValid(fallback)) =>
          /\ lpc = "done" /\ outcome = "empty"
          /\ Tier1Failed /\ ~CacheHoldsNonEmptyArray
          /\ users = <<>> /\ ~isLiveData /\ ~loading
          /\ saveOutcome = "none"
C14_Witness ==
    /\ lpc = "done" /\ outcome = "empty" /\ users = <<>>
    /\ result.settled = "timeout" /\ lsData.kind = "corrupt"
    /\ fallback.settled = "response" /\ ~fallback.ok /\ fallback.data = Payload

(* C15, as claimed: whenever the remote call answered ok with success true *)
(* and a non-empty data array, loadData ends live with the user list equal *)
(* to the merged remote result, whatever the cache holds (the entries of   *)
(* the remote data being objects).                                         *)
C15_RemoteSupersedes ==
    (/\ lpc = "done" /\ ResponseIsValid(result)
     /\ \A i \in 1..Len(result.data) : result.data[i] /= JsNull) =>
       /\ outcome = "tier1" /\ isLiveData
       /\ ~merged.threw /\ users = merged.val

(* C16, as claimed: after a tier 1 success the user list is                *)
(* mergeWithCache(result.data) evaluated against the cache as it was       *)
(* before the write, and the stored cache array is that same value.        *)
Tier1Succeeds == Tier1Settles /\ outcome' = "tier1"
C16_MergedCachedSurfaced ==
    [][Tier1Succeeds =>
         /\ users' = MergeWithCache(result'.data, lsData, lsTs).val
         /\ lsData' = [kind |-> "array", arr |-> users']]_vars
(* C16, amended: after a tier 1 success the user list is                   *)
(* mergeWithCache(result.data) evaluated against the cache as it was       *)
(* before the write; the stored cache array is that same value unless the  *)
(* storage write of the entries threw, in which case the cache and its     *)
(* timestamp stay as they were.                                            *)
C16_MergedSurfacedCachedIfWritable ==
    [][Tier1Succeeds =>
         /\ users' = MergeWithCache(result'.data, lsData, lsTs).val
         /\ users' = merged'.val
         /\ saveOutcome' \in SaveModes
         /\ (saveOutcome' /= "firstThrows" =>
               lsData' = [kind |-> "array", arr |-> users'])
         /\ (saveOutcome' = "saved" => lsTs' = now')
         /\ (saveOutcome' = "firstThrows" => lsData' = lsData /\ lsTs' = lsTs)]_vars
C16_Witness ==
    /\ outcome = "tier1" /\ saveOutcome = "saved"
    /\ incoming = <<[handle |-> "@a", likes |-> 10]>>
    /\ users = <<[handle |-> "@a", likes |-> 10, extra |-> "x"]>>
    /\ lsData = [kind |-> "array", arr |-> users]

(* C17: at the end of a loadData run the status is live exactly when tier  *)
(* 1 succeeded in that run (a valid response whose merge returned); runs   *)
(* that end in tier 2, tier 3 or with nothing end not live.                *)
C17_LiveIffTier1 ==
    lpc = "done" =>
       /\ isLiveData <=> (ResponseIsValid(result) /\ ~merged.threw)
       /\ isLiveData <=> outcome = "tier1"
       /\ outcome \in {"tier2", "tier3", "empty"} => ~isLiveData
C17_Witness ==
    /\ lpc = "done" /\ outcome = "tier2" /\ ~isLiveData
    /\ ResponseIsValid(result) /\ merged.threw

(* ------------- successive sync runs against the same tables ------------ *)
LogOf(table) == {j \in 1..Len(syncLog) : syncLog[j].table = table}
(* the log entries of the tweets upserts that carried the post id *)
WritesOf(id) ==
    {j \in LogOf("tweets") : \E m \in 1..Len(syncLog[j].rows) : syncLog[j].rows[m].id = id}
(* the record the first of them carried under that id *)
FirstWritten(id) ==
    LET j == CHOOSE j \in WritesOf(id) : \A l \in WritesOf(id) : j <= l
        ms == {m \in 1..Len(syncLog[j].rows) : syncLog[j].rows[m].id = id}
    IN  syncLog[j].rows[CHOOSE m \in ms : \A l \in ms : m <= l]

(* C18: after any sequence of sync runs the tweets table has one row per   *)
(* post id that a successful tweets upsert carried, and that row (text,    *)
(* counters, author, date) is the record of the first upsert that carried  *)
(* the id; later runs carrying the id with other values leave it as it is. *)
C18_FirstWriteWins ==
    /\ \A i \in 1..Len(tweetsTable) :
          /\ WritesOf(tweetsTable[i].id) /= {}
          /\ tweetsTable[i] = FirstWritten(tweetsTable[i].id)
          /\ \A l \in 1..Len(tweetsTable) : tweetsTable[l].id = tweetsTable[i].id => l = i
    /\ \A j \in LogOf("tweets") : \A m \in 1..Len(syncLog[j].rows) :
          HasTweet(tweetsTable, syncLog[j].rows[m].id)
C18_Witness ==
    /\ runs = 2 /\ ypc = "done" /\ syncResponse.status = 200
    /\ Len(syncLog) = 4
    /\ Len(syncLog[2].rows) >= 1 /\ Len(syncLog[4].rows) >= 1
    /\ syncLog[2].rows[1].id = 1 /\ syncLog[4].rows[1].id = 1
    /\ syncLog[2].rows[1].text /= syncLog[4].rows[1].text
    /\ syncLog[2].rows[1].likes /= syncLog[4].rows[1].likes
    /\ tweetsTable[1] = syncLog[2].rows[1]

(* C19: the upserts are idempotent and keyed by handle.  When two runs in  *)
(* a row fetch the same batch and their upserts succeed, the users table   *)
(* and the tweets table after the second run are what they were after the  *)
(* first; and after every users upsert each incoming author row is stored  *)
(* with exactly its incoming values, one row per handle.                   *)
C19_UpsertIdempotent ==
    /\ \A i, j \in 1..Len(syncLog) :
          (/\ syncLog[j].run = syncLog[i].run + 1
           /\ syncLog[j].table = syncLog[i].table
           /\ syncLog[j].batch = syncLog[i].batch)
          => (syncLog[j].after = syncLog[i].after /\ syncLog[j].before = syncLog[i].after)
    /\ \A j \in LogOf("users") : \A m \in 1..Len(syncLog[j].rows) :
          /\ syncLog[j].rows[m] \in syncLog[j].after
          /\ \A r \in syncLog[j].after :
                r.handle = syncLog[j].rows[m].handle => r = syncLog[j].rows[m]
    /\ \A h \in {r.handle : r \in usersTable} :
          Cardinality({r \in usersTable : r.handle = h}) = 1
    /\ LogOf("users") /= {} =>
          usersTable = syncLog[CHOOSE j \in LogOf("users") :
                                  \A l \in LogOf("users") : l <= j].after
    /\ LogOf("tweets") /= {} =>
          tweetsTable = syncLog[CHOOSE j \in LogOf("tweets") :
                                   \A l \in LogOf("tweets") : l <= j].after
C19_Witness ==
    /\ runs = 2 /\ ypc = "done" /\ syncResponse.status = 200
    /\ Len(syncLog) = 4
    /\ syncLog[1].batch = syncLog[3].batch /\ Len(syncLog[1].batch) = 2
    /\ Cardinality(usersTable) = 2
    /\ syncLog[3].after = syncLog[1].after /\ syncLog[4].after = syncLog[2].after
    /\ Len(tweetsTable) = 2

(* C20, as claimed: for every handle, total_tweets, total_likes and        *)
(* total_retweets of the stored author row never decrease from one users   *)
(* upsert to the next, whatever windows the runs fetch.                    *)
C20_TotalsNeverDecrease ==
    [][\A r \in usersTable : \A r2 \in usersTable' :
          r2.handle = r.handle =>
             /\ r2.total_tweets >= r.total_tweets
             /\ r2.total_likes >= r.total_likes
             /\ r2.total_retweets >= r.total_retweets]_vars


-----------------------------------------------------------------------------
(* Persisting a snapshot: clear-then-insert, the snapshot file, the exits   *)

(* the run's call to the external posts API failed *)
FetchFailed ==
    \/ ilog.fetch = "error"
    \/ (syncResponse.status = 500 /\ syncResponse.message = UpstreamMessage)

(* C21: after a full-reindex run that reports success (exit code 0) the    *)
(* leaderboard table holds exactly the entries of the new snapshot and no  *)
(* row of the previous one, whatever the outcome of the clear step.        *)
C21_SuccessMeansReplaced ==
    (variant = "store" /\ ipc = "exited" /\ exitCode = 0 /\ Len(leaderboardCache) >= 1)
        => leaderboardTable = leaderboardCache

(* C22: when the call to the external posts API fails, the run writes      *)
(* nothing: every step that ends in a run whose fetch has failed leaves    *)
(* the author table, the post table, the leaderboard table and the         *)
(* snapshot file as they were.                                             *)
C22_FetchFailureWritesNothing ==
    [][FetchFailed'
         => UNCHANGED <<usersTable, tweetsTable, leaderboardTable, snapshotFile>>]_vars

(* the Supabase-writing indexer has exited on a failed fetch, the table    *)
(* still holding the previous snapshot                                     *)
C22_Witness ==
    /\ variant = "store" /\ ipc = "exited" /\ ilog.fetch = "error"
    /\ leaderboardTable = PreviousSnapshot /\ Len(leaderboardTable) = 1

(* C23: when the call to the external posts API fails, the run ends with a *)
(* failure outcome: a scripted indexer that has exited has a non-zero exit *)
(* code, the sync handler has answered a non-success response.             *)
C23_FetchFailureEndsInFailure ==
    /\ (ilog.fetch = "error" /\ ipc = "exited") => exitCode = 1
    /\ (ypc = "done" /\ syncResponse.status /= 200) => ~syncResponse.success

(* C30: a run that ends in failure leaves the store as it was: a reindex   *)
(* whose insert failed has the previous leaderboard rows in place, a sync  *)
(* whose tweets upsert failed has left the author table as it was before   *)
(* the run's users upsert.                                                 *)
C30_FailedRunLeavesStore ==
    /\ (variant = "store" /\ ipc = "exited" /\ ilog.save = "error"
          /\ Len(leaderboardCache) >= 1)
          => leaderboardTable = PreviousSnapshot
    /\ (ypc = "done" /\ syncResponse.status = 500
          /\ syncResponse.message = TweetsMessage)
          => syncLog[Len(syncLog)].after = syncLog[Len(syncLog)].before

-----------------------------------------------------------------------------
(* The read endpoint: failed reads, completion order                       *)

Answered200 == spc = "done" /\ response.status = 200

(* C24: the read endpoint answers success only if the author read and      *)
(* every per-author read succeeded; a failed read is never presented as an *)
(* empty list.                                                             *)
C24_SuccessMeansEveryReadSucceeded ==
    Answered200 => \A i \in 1..Len(subReads) : ~subReads[i].failed

(* C27: whatever the order in which the per-author reads resolve, the      *)
(* response lists the authors in the order of the author read, rank equal  *)
(* to position, each entry with posts of its own author only, and          *)
(* totalUsers equal to the number of entries.                              *)
C27_ResponseIndependentOfCompletion ==
    Answered200 =>
        /\ Len(response.data) = Len(usersRead)
        /\ response.totalUsers = Len(response.data)
        /\ \A i \in 1..Len(response.data) :
              /\ response.data[i].rank = i
              /\ response.data[i].handle = <<"@", usersRead[i].handle>>
              /\ \A k \in 1..Len(response.data[i].recentTweets) :
                    \E j \in 1..Len(tweetsTable) :
                       /\ tweetsTable[j].user_handle = usersRead[i].handle
                       /\ TweetView(tweetsTable[j]) = response.data[i].recentTweets[k]

(* two authors, the second one's read resolved first, each with a post *)
C27_Witness ==
    /\ Answered200
    /\ completionOrder = <<2, 1>>
    /\ \A i \in 1..2 : Len(response.data[i].recentTweets) >= 1

-----------------------------------------------------------------------------
(* Normalizing a post: alternative field names, the aggregation key        *)

(* the first of the alternatives that is present (not undefined), 0 when   *)
(* none is                                                                 *)
FirstPresent(x, y) == IF x /= Undefined THEN x ELSE IF y /= Undefined THEN y ELSE 0

(* C25: each counter of a normalized post is the first alternative field   *)
(* that is present, in the probe order; a first-choice counter present     *)
(* with value 0 is used as 0 even when the later alternative differs.      *)
C25_FirstPresentAlternative ==
    /\ ipc /= "idle" =>
          \A p \in 1..Len(userStats.val) :
             \A k \in 1..Len(userStats.val[p].recentTweets) :
                LET s == userStats.val[p].recentTweets[k]
                    tweet == tweets[s.text]
                IN  /\ s.likes = FirstPresent(tweet.favorite_count, tweet.likeCount)
                    /\ s.retweets = FirstPresent(tweet.retweet_count, tweet.retweetCount)
    /\ \A k \in 1..Len(tweetRecords) :
          LET r == tweetRecords[k]
              tweet == tweets[r.id]
          IN  /\ r.likes = FirstPresent(tweet.favorite_count, tweet.likeCount)
              /\ r.retweets = FirstPresent(tweet.retweet_count, tweet.retweetCount)
              /\ r.replies = FirstPresent(tweet.reply_count, tweet.replyCount)

(* C26: the handle is a unique merge key: a snapshot produced by an        *)
(* indexing run has at most one entry per handle, posts of authors with    *)
(* distinct identifiers and the same handle being aggregated together.     *)
C26_OneEntryPerHandle ==
    \A i, j \in 1..Len(leaderboardCache) :
       leaderboardCache[i].handle = leaderboardCache[j].handle => i = j

-----------------------------------------------------------------------------
(* loadData: the loading flag, the writes to the cache                     *)

(* C28: every loadData run ends its loading phase: once loadData has set   *)
(* loading and issued the remote fetch, the run eventually reaches an exit *)
(* (tier 1, tier 2, tier 3 or total failure) with loading false, provided  *)
(* each awaited fetch settles.                                             *)
C28_LoadingEventuallyFalse ==
    (lpc = "remote" /\ loading)
        ~> (lpc = "done" /\ outcome \in {"tier1", "tier2", "tier3", "empty"} /\ ~loading)

(* a run that had to wait for both fetches and ended in total failure *)
C28_Witness ==
    /\ lpc = "done" /\ outcome = "empty" /\ ~loading
    /\ remote = "timeout" /\ static = "rejected"

(* C29: the cache entries (data and timestamp) are written only by a step  *)
(* that ends loadData in tier 1 or in tier 3; the instant read on mount,   *)
(* and a run that ends in tier 2 or in total failure, leave both as they   *)
(* were.                                                                   *)
C29_CacheWrittenOnlyByTier1Or3 ==
    [][/\ (lsData' /= lsData \/ lsTs' /= lsTs)
            => (lpc' = "done" /\ outcome' \in {"tier1", "tier3"})
       /\ (lpc = "mount" \/ outcome' \in {"tier2", "empty"})
            => UNCHANGED <<lsData, lsTs>>]_vars

(* a run that ended in total failure over a corrupt cache entry, which is  *)
(* still there with its timestamp                                          *)
C29_Witness ==
    /\ lpc = "done" /\ outcome = "empty"
    /\ lsData.kind = "corrupt" /\ lsTs = 3000000

-----------------------------------------------------------------------------
(* ---------------- Client: the leaderboard view, search and pages -------- *)

UsersPerPage == 10     \* USERS_PER_PAGE
MaxListed == 21        \* entries of the longest cached list

(* a cached leaderboard entry as the endpoint serves it: name and handle *)
ListedEntry(i) ==
    IF i = 1 THEN [handle |-> "@a", name |-> "Al", likes |-> 5]
    ELSE IF i = 2 THEN [handle |-> "@b", name |-> "Bob", likes |-> 5]
    ELSE [handle |-> "@u" \o ToString(i), name |-> "User", likes |-> 5]
ViewCaches ==
    { [kind |-> "absent", arr |-> <<>>] }
    \cup { [kind |-> "array", arr |-> [i \in 1..n |-> ListedEntry(i)]] : n \in {UsersPerPage + 1, MaxListed} }

(* String.prototype.toLowerCase on the names and terms that occur *)
ToLowerCase(s) ==
    CASE s = "Al" -> "al" [] s = "Bob" -> "bob" [] s = "User" -> "user" [] OTHER -> s
(* String.prototype.includes: the substrings, among the lower-cased search *)
(* terms, of the lower-cased names and handles that occur                  *)
Includes(s, t) ==
    \/ t = ""
    \/ s = t
    \/ (t = "a" /\ s \in {"al", "@a"})

(* the callback of users.filter: u.name.toLowerCase() throws on an entry   *)
(* that is null or has no name, u.handle.toLowerCase() is only reached     *)
(* when the name does not match                                            *)
FilterThrows(u, term) ==
    \/ "name" \notin DOMAIN u
    \/ /\ ~Includes(ToLowerCase(u.name), ToLowerCase(term))
       /\ "handle" \notin DOMAIN u
Matches(u, term) ==
    \/ Includes(ToLowerCase(u.name), ToLowerCase(term))
    \/ Includes(ToLowerCase(u.handle), ToLowerCase(term))
FilteredUsers(us, term) == SelectSeq(us, LAMBDA u : Matches(u, term))

(* Math.max(1, Math.ceil(filteredUsers.length / USERS_PER_PAGE)) *)
pageCount ==
    LET filteredUsers == FilteredUsers(users, searchTerm)
        pages == (Len(filteredUsers) + UsersPerPage - 1) \div UsersPerPage
    IN  IF pages > 1 THEN pages ELSE 1

(* the leaderboard view is on screen: the mount effect has run and the     *)
(* render went through; its controls take the next event once a scheduled  *)
(* effect has run                                                          *)
ViewShown ==
    /\ lpc \in {"mounted", "remote", "static", "done"}
    /\ \A i \in 1..Len(users) : ~FilterThrows(users[i], searchTerm)

ViewInit ==
    /\ lsData \in ViewCaches /\ lsTs \in {Undefined, 3000000}
    /\ incoming = <<>>
    /\ merged = [threw |-> FALSE, val |-> <<>>] /\ users = <<>>
    /\ isLiveData = FALSE /\ loading = TRUE /\ now = 41500000
    /\ remote = "none" /\ static = "none"
    /\ result = NoResponse /\ fallback = NoResponse /\ cacheAge = NoAge
    /\ saveOutcome = "none"
    /\ tierLog = <<>> /\ outcome = "none" /\ lpc = "mount"
    /\ ViewStart
    /\ IndexIdle /\ SyncIdle /\ ServeIdle

loadVars == <<lsData, lsTs, incoming, merged, users, isLiveData, loading,
              now, remote, static, result, fallback, cacheAge, saveOutcome,
              tierLog, outcome, lpc>>

(* Previous: setCurrentPage((prev) => Math.max(prev - 1, 1)),              *)
(* disabled={currentPage === 1}                                            *)
PreviousPage ==
    /\ ViewShown /\ ~effectPending
    /\ currentPage /= 1
    /\ currentPage' = (IF currentPage - 1 > 1 THEN currentPage - 1 ELSE 1)
    /\ UNCHANGED <<searchTerm, effectPending, loadVars, idxVars, synVars, srvVars>>

(* Next: setCurrentPage((prev) => Math.min(prev + 1, pageCount)),          *)
(* disabled={currentPage === pageCount}                                    *)
NextPage ==
    /\ ViewShown /\ ~effectPending
    /\ currentPage /= pageCount
    /\ currentPage' = (IF currentPage + 1 < pageCount THEN currentPage + 1 ELSE pageCount)
    /\ UNCHANGED <<searchTerm, effectPending, loadVars, idxVars, synVars, srvVars>>

(* onChange of the search box: setSearchTerm(e.target.value), a few terms  *)
(* being typed; the effect on [searchTerm] is scheduled by the render that *)
(* follows                                                                 *)
ChangeSearch ==
    /\ ViewShown /\ ~effectPending
    /\ \E t \in {"", "a", "Al", "user"} \ {searchTerm} : searchTerm' = t
    /\ effectPending' = TRUE
    /\ UNCHANGED <<currentPage, loadVars, idxVars, synVars, srvVars>>

(* useEffect(() => { setCurrentPage(1); }, [searchTerm]) *)
ResetPageEffect ==
    /\ effectPending
    /\ currentPage' = 1
    /\ effectPending' = FALSE
    /\ UNCHANGED <<searchTerm, loadVars, idxVars, synVars, srvVars>>

ViewNext ==
    \/ InstantLoad \/ LoadDataStart
    \/ RemoteFails \/ RemoteSucceeds
    \/ StaticSucceeds \/ StaticFails
    \/ PreviousPage \/ NextPage \/ ChangeSearch \/ ResetPageEffect
SpecView == ViewInit /\ [][ViewNext]_vars

(* C31: in every state of the leaderboard view (no page-reset effect       *)
(* outstanding), 1 <= currentPage <= pageCount, under any interleaving of  *)
(* Previous/Next, search-term changes and replacement of the user list by  *)
(* the instant read or by loadData.                                        *)
C31_PageWithinRange ==
    (ViewShown /\ ~effectPending) => (1 <= currentPage /\ currentPage <= pageCount)
=============================================================================
